---- MODULE Spec2Model ----
(***************************************************************************)
(* Instance lifecycle and connection resolution of opencode-sidebar-tui:   *)
(* InstanceStore, PortManager, InstanceController, ConnectionResolver and  *)
(* HealthPoller, modelled as one state machine.  Every await of the        *)
(* TypeScript code is a suspension point: the code between two awaits is   *)
(* one action.                                                             *)
(*                                                                         *)
(* An optional value (T | undefined) is a sequence of length 0 or 1:       *)
(* None is undefined, Some(x) is x.                                        *)
(***************************************************************************)
EXTENDS Integers, Sequences, FiniteSets, TLC

VARIABLES
  store,                  \* InstanceStore: records, insertion order, activeInstanceId, emitted events
  pm,                     \* PortManager: usedPorts, terminalPortMap, portTerminalMap
  pmWired,                \* PortManager was constructed with the InstanceStore
  terminals,              \* TerminalManager.terminals: the terminal keys with a live process
  intervals,              \* HealthPoller.intervals: the ids with a timer
  failureCounts,          \* HealthPoller.failureCounts
  probes,                 \* HealthPoller probes in flight, per id: launched before / after the last stop
  tasks,                  \* the resolve calls in progress, one per task slot
  resolverHasController,  \* ConnectionResolver was constructed with a controller
  controllerHasResolver,  \* InstanceController was constructed with a connectionResolver
  platform,               \* process.platform
  workspaceFolder,        \* vscode.workspace.workspaceFolders?.[0]?.uri.fsPath
  limited,                \* the callers start at most MaxStarted operations
  slots,                  \* how many resolve calls the callers keep in progress at the same time
  recordEvents,           \* the events the store emits are recorded (a listener is subscribed)
  started,                \* how many operations the callers have started, when limited
  pmResult,               \* what the last direct call of the PortManager returned or threw
  hist,                   \* history of the HealthPoller, per id: failures counted since the last success or stop, those of them that completed while the instance was connected, last outcome
  timers,                 \* the timers created by setInterval and not cleared, counted per id
  mem,                    \* the object graph of the store's records and of the records its callers hold
  api,                    \* one OpenCodeApiClient and the request it is running
  pathCall                \* one call of ConnectionResolver.pathsMatch: its arguments and its result

vars == <<store, pm, pmWired, terminals, intervals, failureCounts, probes, tasks,
          resolverHasController, controllerHasResolver, platform, workspaceFolder,
          limited, slots, recordEvents, started, pmResult, hist, timers, mem, api, pathCall>>

----
\* Bounds of the model

\* number of ports the random generator and the callers draw from
PortSpan == 2
\* number of operations that the callers start when their number is limited
MaxStarted == 3
\* number of health probes of one id that can be in flight at the same time
MaxProbes == 1
\* cap of the failure counter in the guards
MaxFailures == 4
\* how many calls the holders of record objects make
MaxHeapOps == 3
\* largest retry budget an OpenCodeApiClient is constructed with
MaxRetries == 2
\* longest path given to pathsMatch, in characters
MaxPathLen == 3

----
\* Program constants

MIN_PORT == 16384
MAX_PORT == 65535
FAILURE_THRESHOLD == 3
RANDOM_ATTEMPTS == 100
DEFAULT_BASE_DELAY == 200
TEST_BASE_DELAY == 10

None == <<>>
Some(x) == <<x>>
IsSome(o) == o # <<>>
Val(o) == o[1]
\* a ?? b
OrElse(a, b) == IF IsSome(a) THEN a ELSE b

Ids == {"a", "b"}

\* the ids a store can hold: any string, the empty one included
AllIds == Ids \cup {""}

\* a truthy JavaScript string: not the empty string
Truthy(str) == str # ""

\* the slots of the resolve calls that can be in progress at the same time
Tasks == {1, 2}
PoolPorts == MIN_PORT..(MIN_PORT + PortSpan - 1)
\* ports a caller can pass: the pool and one port below the range
InputPorts == PoolPorts \cup {MIN_PORT - 1}
\* a path is a sequence of characters
PathW == <<"/", "w">>
PathWSub == <<"/", "w", "/", "s", "/">>
PathX == <<"/", "x">>
Now == "Date.now()"

States == {"disconnected", "resolving", "spawning", "connecting", "connected", "error", "stopping"}

HealthFailedMessage == "Health check failed 3 consecutive times"
UnableToResolveMessage == "Unable to resolve a healthy port."

----
\* InstanceStore

CreatedRecord(id) ==
  [config |-> [id |-> id, workspaceUri |-> None, preferredPort |-> None],
   runtime |-> [port |-> None, pid |-> None, terminalKey |-> None, lastSeenAt |-> None],
   state |-> "disconnected",
   health |-> None,
   error |-> None]

EmptyStore ==
  [recs |-> [i \in AllIds |-> None], order |-> <<>>, active |-> None, emitted |-> <<>>]

\* get(id): the record or undefined
Get(s, id) == s.recs[id]

Has(s, id) == IsSome(s.recs[id])

\* getAll(): the records in insertion order
GetAll(s) == [k \in 1..Len(s.order) |-> Val(s.recs[s.order[k]])]

\* an event with its argument
Event(name, arg) == [event |-> name, arg |-> arg]

Emit(s, ev) == IF recordEvents THEN [s EXCEPT !.emitted = Append(@, ev)] ELSE s

\* faulty variant: add is emitted for known ids too
Upsert_AlwaysAdds(s, rec) ==
  LET id == rec.config.id
      existed == Has(s, id)
      s1 == [s EXCEPT !.recs[id] = Some(rec),
                      !.order = IF existed THEN @ ELSE Append(@, id)]
      s2 == IF s1.active = None
            THEN Emit([s1 EXCEPT !.active = Some(id)], Event("setActive", id))
            ELSE s1
      s3 == Emit(s2, Event("add", rec))
  IN Emit(s3, Event("change", GetAll(s3)))

\* upsert(record)
Upsert(s, rec) ==
  LET id == rec.config.id
      existed == Has(s, id)
      s1 == [s EXCEPT !.recs[id] = Some(rec),
                      !.order = IF existed THEN @ ELSE Append(@, id)]
      s2 == IF s1.active = None
            THEN Emit([s1 EXCEPT !.active = Some(id)], Event("setActive", id))
            ELSE s1
      s3 == IF ~existed THEN Emit(s2, Event("add", rec)) ELSE s2
  IN Emit(s3, Event("change", GetAll(s3)))

RemoveFromOrder(seq, id) ==
  SelectSeq(seq, LAMBDA x : x # id)

\* remove(id) returns whether the id was in the store
RemoveReturns(s, id) == Has(s, id)

\* faulty variant: removing the active id promotes no other id
Remove_NoPromotion(s, id) ==
  IF ~Has(s, id) THEN s
  ELSE Emit(Emit([s EXCEPT !.recs[id] = None, !.order = RemoveFromOrder(@, id)],
                 Event("remove", id)),
            Event("change", GetAll([s EXCEPT !.recs[id] = None,
                                             !.order = RemoveFromOrder(@, id)])))

\* remove(id)
Remove(s, id) ==
  IF ~Has(s, id) THEN s
  ELSE
    LET s1 == Emit([s EXCEPT !.recs[id] = None, !.order = RemoveFromOrder(@, id)],
                   Event("remove", id))
        s2 == IF s1.active = Some(id)
              THEN IF Len(s1.order) = 0
                   THEN [s1 EXCEPT !.active = None]
                   ELSE IF Truthy(s1.order[1])
                   THEN Emit([s1 EXCEPT !.active = Some(s1.order[1])],
                             Event("setActive", s1.order[1]))
                   ELSE [s1 EXCEPT !.active = Some(s1.order[1])]
              ELSE s1
    IN Emit(s2, Event("change", GetAll(s2)))

\* getActive(): the active record, or None when it throws
getActive(s) ==
  IF Len(s.order) = 0 \/ s.active = None THEN None
  ELSE Get(s, Val(s.active))

\* faulty variant: change is emitted before setActive
SetActive_ChangeFirst(s, id) ==
  IF s.active = Some(id) THEN s
  ELSE Emit(Emit([s EXCEPT !.active = Some(id)], Event("change", GetAll(s))),
            Event("setActive", id))

\* setActive(id) once id is known to be in the store
SetActive(s, id) ==
  IF s.active = Some(id) THEN s
  ELSE Emit(Emit([s EXCEPT !.active = Some(id)], Event("setActive", id)),
            Event("change", GetAll(s)))

\* setActive(id): the store it leaves and the error it throws, if any
setActive(s, id) ==
  IF ~Has(s, id) THEN [store |-> s, err |-> Some("UnknownId")]
  ELSE [store |-> SetActive(s, id), err |-> None]

\* a store call starts with no event emitted yet
Fresh(s) == [s EXCEPT !.emitted = <<>>]

----
\* The records of the InstanceStore as objects.  An object lives at an address of
\* the heap (its index); a record object refers to its config, runtime and health
\* objects, and a config object to its args array.

EmptyMem ==
  [heap |-> <<>>, records |-> [i \in Ids |-> None], order |-> <<>>, held |-> {},
   last |-> [i \in Ids |-> None], ops |-> 0]

\* the value of the record object at address a, every reference followed
ValueOf(h, a) ==
  [config |-> [h[h[a].config] EXCEPT
                 !.args = IF IsSome(@) THEN Some(h[Val(@)].items) ELSE None],
   runtime |-> h[h[a].runtime],
   state |-> h[a].state,
   health |-> IF IsSome(h[a].health) THEN Some(h[Val(h[a].health)]) ELSE None,
   error |-> h[a].error]

\* faulty variant: the args array of the copy is the array of the original
cloneRecord_SharesArgs(h, a) ==
  LET rec == h[a]
      h1 == Append(h, h[rec.config])
      h2 == Append(h1, h[rec.runtime])
      h3 == IF IsSome(rec.health) THEN Append(h2, h[Val(rec.health)]) ELSE h2
      h4 == Append(h3, [config |-> Len(h1), runtime |-> Len(h2), state |-> rec.state,
                        health |-> IF IsSome(rec.health) THEN Some(Len(h3)) ELSE None,
                        error |-> rec.error])
  IN [heap |-> h4, addr |-> Len(h4)]

\* cloneRecord(record): the heap with the copy, and the address of the copy
cloneRecord(h, a) ==
  LET rec == h[a]
      cfg == h[rec.config]
      h0 == IF IsSome(cfg.args) THEN Append(h, [items |-> h[Val(cfg.args)].items]) ELSE h
      h1 == Append(h0, [cfg EXCEPT !.args = IF IsSome(cfg.args) THEN Some(Len(h0)) ELSE None])
      h2 == Append(h1, h[rec.runtime])
      h3 == IF IsSome(rec.health) THEN Append(h2, h[Val(rec.health)]) ELSE h2
      h4 == Append(h3, [config |-> Len(h1), runtime |-> Len(h2), state |-> rec.state,
                        health |-> IF IsSome(rec.health) THEN Some(Len(h3)) ELSE None,
                        error |-> rec.error])
  IN [heap |-> h4, addr |-> Len(h4)]

RECURSIVE CloneAll(_, _, _)
\* getAll() on objects: the heap with a copy of every stored record from position
\* k of the insertion order on, and the addresses of the copies
CloneAll(m, h, k) ==
  IF k > Len(m.order) THEN [heap |-> h, addrs |-> <<>>]
  ELSE LET c == cloneRecord(h, Val(m.records[m.order[k]]))
           rest == CloneAll(m, c.heap, k + 1)
       IN [heap |-> rest.heap, addrs |-> <<c.addr>> \o rest.addrs]

MemGetAll(m) == CloneAll(m, m.heap, 1)

\* get(id) on objects: the heap after the call and the address returned, if any
MemGet(m, id) ==
  IF m.records[id] = None THEN [heap |-> m.heap, addr |-> None]
  ELSE LET c == cloneRecord(m.heap, Val(m.records[id]))
       IN [heap |-> c.heap, addr |-> Some(c.addr)]

\* upsert(record) on objects, a being the address of the caller's record; the add
\* and change listeners keep the records they are handed
MemUpsert(m, a) ==
  LET id == m.heap[m.heap[a].config].id
      existed == IsSome(m.records[id])
      c1 == cloneRecord(m.heap, a)
      m1 == [m EXCEPT !.heap = c1.heap,
                      !.records[id] = Some(c1.addr),
                      !.order = IF existed THEN @ ELSE Append(@, id),
                      !.last[id] = Some(ValueOf(m.heap, a))]
      c2 == cloneRecord(m1.heap, a)
      m2 == IF existed THEN m1
            ELSE [m1 EXCEPT !.heap = c2.heap, !.held = @ \cup {c2.addr}]
      all == MemGetAll(m2)
  IN [m2 EXCEPT !.heap = all.heap,
                !.held = @ \cup {all.addrs[k] : k \in 1..Len(all.addrs)}]

\* a record literal built by a caller: the heap with its objects, and its address
NewRecord(h, id, full) ==
  LET h0 == IF full THEN Append(h, [items |-> <<"--port">>]) ELSE h
      h1 == Append(h0, [id |-> id, workspaceUri |-> None, preferredPort |-> None,
                        args |-> IF full THEN Some(Len(h0)) ELSE None])
      h2 == Append(h1, [port |-> Some(MIN_PORT), pid |-> None, terminalKey |-> None,
                        lastSeenAt |-> None])
      h3 == IF full THEN Append(h2, [ok |-> TRUE, version |-> None]) ELSE h2
      h4 == Append(h3, [config |-> Len(h1), runtime |-> Len(h2), state |-> "connected",
                        health |-> IF full THEN Some(Len(h3)) ELSE None,
                        error |-> None])
  IN [heap |-> h4, addr |-> Len(h4)]

MutableParts == {"config", "args", "runtime", "health", "state"}

\* an assignment by the holder of the record object at address a
Mutated(h, a, part) ==
  CASE part = "config" -> [h EXCEPT ![h[a].config].workspaceUri = Some("Mutated")]
    [] part = "args" ->
         IF IsSome(h[h[a].config].args)
         THEN [h EXCEPT ![Val(h[h[a].config].args)].items = <<"Mutated">>]
         ELSE h
    [] part = "runtime" -> [h EXCEPT ![h[a].runtime].terminalKey = Some("Mutated")]
    [] part = "health" ->
         IF IsSome(h[a].health)
         THEN [h EXCEPT ![Val(h[a].health)].ok = FALSE]
         ELSE h
    [] part = "state" -> [h EXCEPT ![a].state = "error"]

----
\* PortManager

EmptyMap == [k \in {} |-> None]
MapSet(m, k, v) == [x \in (DOMAIN m) \cup {k} |-> IF x = k THEN v ELSE m[x]]
MapDelete(m, k) == [x \in (DOMAIN m) \ {k} |-> m[x]]
MapGet(m, k) == IF k \in DOMAIN m THEN Some(m[k]) ELSE None

EmptyPortManager ==
  [usedPorts |-> {}, terminalPortMap |-> EmptyMap, portTerminalMap |-> EmptyMap]

\* faulty variant: no upper limit
isValidPort_NoUpperLimit(port) == port >= MIN_PORT

\* isValidPort(port) for an integer
isValidPort(port) == port >= MIN_PORT /\ port <= MAX_PORT

\* isValidPort(port + 1/2): Number.isInteger fails
isValidFraction(port) == FALSE

isPortClaimedByInstance(s, port) ==
  /\ pmWired
  /\ \E id \in AllIds : Has(s, id) /\ Val(Get(s, id)).runtime.port = Some(port)

isPortAvailable(p, s, port) ==
  /\ isValidPort(port)
  /\ port \notin p.usedPorts
  /\ ~isPortClaimedByInstance(s, port)

getAvailablePortCount(p) == (MAX_PORT - MIN_PORT + 1) - Cardinality(p.usedPorts)

RECURSIVE ScanFrom(_, _)
\* the sequential fallback scan: the first port not locally reserved
ScanFrom(p, port) ==
  IF port > MAX_PORT THEN None
  ELSE IF port \notin p.usedPorts THEN Some(port)
  ELSE ScanFrom(p, port + 1)

\* generateRandomPort() can draw every port of the range; the draws that matter
\* are the available ports of the pool and, when some port of the range is not
\* available, a port that is not available
DrawsAvailable(p, s) == {q \in PoolPorts : isPortAvailable(p, s, q)}

DrawsUnavailable(p, s) ==
  \/ p.usedPorts # {}
  \/ \E id \in AllIds :
       /\ Has(s, id)
       /\ IsSome(Val(Get(s, id)).runtime.port)
       /\ isValidPort(Val(Val(Get(s, id)).runtime.port))
       /\ isPortClaimedByInstance(s, Val(Val(Get(s, id)).runtime.port))

\* the loop of random probes, then the sequential scan: probe k returns an
\* available port after k - 1 probes drew a port that is not available, and the
\* scan runs after RANDOM_ATTEMPTS such probes.  A run is the port returned (None
\* for the thrown error), how many probes were made and whether the scan ran
RandomProbes(available, blocked, scan) ==
  {[val |-> Some(q), probes |-> k, scanned |-> FALSE] :
     q \in available, k \in (IF blocked THEN 1..RANDOM_ATTEMPTS ELSE {1})}
  \cup (IF blocked
        THEN {[val |-> scan, probes |-> RANDOM_ATTEMPTS, scanned |-> TRUE]}
        ELSE {})

\* faulty variant: the sequential scan finds nothing
Draws_ScanThrows(p, s) ==
  IF getAvailablePortCount(p) = 0
  THEN {[val |-> None, probes |-> 0, scanned |-> FALSE]}
  ELSE RandomProbes(DrawsAvailable(p, s), DrawsUnavailable(p, s), None)

\* the runs of getAvailablePort()
Draws(p, s) ==
  IF getAvailablePortCount(p) = 0
  THEN {[val |-> None, probes |-> 0, scanned |-> FALSE]}
  ELSE RandomProbes(DrawsAvailable(p, s), DrawsUnavailable(p, s), ScanFrom(p, MIN_PORT))

\* getAvailablePort(): the set of results the random draws can produce;
\* None is the thrown "No available ports" error
getAvailablePort(p, s) == {d.val : d \in Draws(p, s)}

Ok(p, v) == [pm |-> p, ok |-> TRUE, val |-> v, err |-> None]
Throw(p, msg) == [pm |-> p, ok |-> FALSE, val |-> None, err |-> Some(msg)]

\* faulty variant: the port is checked but not marked
reservePort_NoMark(p, port) ==
  IF ~isValidPort(port) THEN Throw(p, "OutOfRange")
  ELSE IF port \in p.usedPorts THEN Throw(p, "AlreadyInUse")
  ELSE Ok(p, None)

\* reservePort(port)
reservePort(p, port) ==
  IF ~isValidPort(port) THEN Throw(p, "OutOfRange")
  ELSE IF port \in p.usedPorts THEN Throw(p, "AlreadyInUse")
  ELSE Ok([p EXCEPT !.usedPorts = @ \cup {port}], None)

\* reservePort(port + 1/2)
reservePortFraction(p, port) ==
  IF ~isValidFraction(port) THEN Throw(p, "OutOfRange")
  ELSE IF port \in p.usedPorts THEN Throw(p, "AlreadyInUse")
  ELSE Ok([p EXCEPT !.usedPorts = @ \cup {port}], None)

\* releasePort(port)
releasePort(p, port) ==
  IF port \notin p.usedPorts THEN p
  ELSE
    LET p1 == [p EXCEPT !.usedPorts = @ \ {port}]
        terminalId == MapGet(p.portTerminalMap, port)
    IN IF IsSome(terminalId) /\ Truthy(Val(terminalId))
       THEN [p1 EXCEPT !.terminalPortMap = MapDelete(@, Val(terminalId)),
                       !.portTerminalMap = MapDelete(@, port)]
       ELSE p1

Assign(p, terminalId, port) ==
  [p EXCEPT !.usedPorts = @ \cup {port},
            !.terminalPortMap = MapSet(@, terminalId, port),
            !.portTerminalMap = MapSet(@, port, terminalId)]

\* faulty variant: a port that is passed is validated before the existing port
\* of the key is looked up
assignPortToTerminal_ValidatesFirst(p, s, terminalId, port) ==
  LET existingPort == MapGet(p.terminalPortMap, terminalId)
  IN IF IsSome(port) /\ ~isValidPort(Val(port)) THEN {Throw(p, "OutOfRange")}
     ELSE IF IsSome(existingPort) THEN {Ok(p, existingPort)}
     ELSE IF IsSome(port)
          THEN IF Val(port) \in p.usedPorts THEN {Throw(p, "AlreadyInUse")}
               ELSE {Ok(Assign(p, terminalId, Val(port)), port)}
          ELSE {IF IsSome(r) THEN Ok(Assign(p, terminalId, Val(r)), r)
                             ELSE Throw(p, "Exhausted")
                : r \in getAvailablePort(p, s)}

\* assignPortToTerminal(terminalId, port?): the set of possible results
assignPortToTerminal(p, s, terminalId, port) ==
  LET existingPort == MapGet(p.terminalPortMap, terminalId)
  IN IF IsSome(existingPort) THEN {Ok(p, existingPort)}
     ELSE IF IsSome(port)
          THEN IF ~isValidPort(Val(port)) THEN {Throw(p, "OutOfRange")}
               ELSE IF Val(port) \in p.usedPorts THEN {Throw(p, "AlreadyInUse")}
               ELSE {Ok(Assign(p, terminalId, Val(port)), port)}
          ELSE {IF IsSome(r) THEN Ok(Assign(p, terminalId, Val(r)), r)
                             ELSE Throw(p, "Exhausted")
                : r \in getAvailablePort(p, s)}

\* assignPortToTerminal(terminalId, port + 1/2)
assignFractionToTerminal(p, terminalId, port) ==
  LET existingPort == MapGet(p.terminalPortMap, terminalId)
  IN IF IsSome(existingPort) THEN Ok(p, existingPort)
     ELSE IF ~isValidFraction(port) THEN Throw(p, "OutOfRange")
     ELSE IF port \in p.usedPorts THEN Throw(p, "AlreadyInUse")
     ELSE Ok(Assign(p, terminalId, port), Some(port))

\* releaseTerminalPorts(terminalId)
releaseTerminalPorts(p, terminalId) ==
  LET port == MapGet(p.terminalPortMap, terminalId)
  IN IF IsSome(port) THEN releasePort(p, Val(port)) ELSE p

----
\* TerminalManager (the process spawner collaborator)

\* killTerminal(id): process.kill() of a live terminal can throw, and then the
\* terminal stays registered
killTerminal(T, key) ==
  IF key \in T
  THEN {[terminals |-> T \ {key}, ok |-> TRUE], [terminals |-> T, ok |-> FALSE]}
  ELSE {[terminals |-> T, ok |-> TRUE]}

\* createTerminal(id, ...): kills a terminal registered under the same id, then
\* pty.spawn creates the process or throws
createTerminal(T, key) ==
  UNION {IF k.ok
         THEN {[terminals |-> k.terminals \cup {key}, ok |-> TRUE],
               [terminals |-> k.terminals, ok |-> FALSE]}
         ELSE {k}
         : k \in killTerminal(T, key)}

----
\* InstanceController

DefaultTerminalKey(id) == "opencode-instance-" \o id

getTerminalKey(id, record) ==
  IF IsSome(record.runtime.terminalKey)
  THEN Val(record.runtime.terminalKey)
  ELSE DefaultTerminalKey(id)

\* getOrCreateRecord(instanceId): the store after the call; the record is Get of it
getOrCreateRecord(s, id) ==
  IF Has(s, id) THEN s ELSE Upsert(s, CreatedRecord(id))

\* the result of a controller operation
Out(s, p, T, err) == [store |-> s, pm |-> p, terminals |-> T, err |-> err]

\* handleFailure(current, operation, error, overrides)
handleFailure(s, overridden, message) ==
  Upsert(s, [overridden EXCEPT !.state = "error", !.error = Some(message)])

\* faulty variant: a failed process creation is rethrown without being recorded
spawn_LeavesSpawning(s, p, T, id, optPort) ==
  LET s0 == getOrCreateRecord(s, id)
      current == Val(Get(s0, id))
      terminalKey == getTerminalKey(id, current)
      nextConfig == [current.config EXCEPT !.preferredPort = OrElse(optPort, @)]
      withKey == [current EXCEPT !.config = nextConfig,
                                 !.runtime.terminalKey = Some(terminalKey)]
      s1 == Upsert(s0, [withKey EXCEPT !.state = "spawning", !.error = None])
  IN UNION {
       IF ~a.ok
       THEN {Out(handleFailure(s1, withKey, Val(a.err)), a.pm, T, a.err)}
       ELSE {IF c.ok
             THEN Out(Upsert(s1, [withKey EXCEPT !.runtime.port = a.val,
                                                 !.state = "connected",
                                                 !.error = None]),
                      a.pm, c.terminals, None)
             ELSE Out(s1, a.pm, c.terminals, Some("SpawnFailed"))
             : c \in createTerminal(T, terminalKey)}
       : a \in assignPortToTerminal(p, s1, terminalKey, nextConfig.preferredPort)}

\* spawn(instanceId, options): the set of possible results
spawn(s, p, T, id, optPort) ==
  LET s0 == getOrCreateRecord(s, id)
      current == Val(Get(s0, id))
      terminalKey == getTerminalKey(id, current)
      nextConfig == [current.config EXCEPT !.preferredPort = OrElse(optPort, @)]
      withKey == [current EXCEPT !.config = nextConfig,
                                 !.runtime.terminalKey = Some(terminalKey)]
      s1 == Upsert(s0, [withKey EXCEPT !.state = "spawning", !.error = None])
  IN UNION {
       IF ~a.ok
       THEN {Out(handleFailure(s1, withKey, Val(a.err)), a.pm, T, a.err)}
       ELSE {IF c.ok
             THEN Out(Upsert(s1, [withKey EXCEPT !.runtime.port = a.val,
                                                 !.state = "connected",
                                                 !.error = None]),
                      a.pm, c.terminals, None)
             ELSE Out(handleFailure(s1, withKey, "SpawnFailed"),
                      a.pm, c.terminals, Some("SpawnFailed"))
             : c \in createTerminal(T, terminalKey)}
       : a \in assignPortToTerminal(p, s1, terminalKey, nextConfig.preferredPort)}

\* connect(instanceId, port): the set of possible results
connect(s, p, T, id, port) ==
  LET s0 == getOrCreateRecord(s, id)
      current == Val(Get(s0, id))
      terminalKey == getTerminalKey(id, current)
      withKey == [current EXCEPT !.runtime.terminalKey = Some(terminalKey)]
      s1 == Upsert(s0, [withKey EXCEPT !.state = "connecting", !.error = None])
  IN {IF a.ok
      THEN Out(Upsert(s1, [withKey EXCEPT !.runtime.port = a.val,
                                          !.state = "connected",
                                          !.error = None]),
               a.pm, T, None)
      ELSE Out(handleFailure(s1, withKey, Val(a.err)), a.pm, T, a.err)
      : a \in assignPortToTerminal(p, s1, terminalKey, Some(port))}

\* faulty variant: the disconnected record starts from an empty runtime
disconnect_DropsRuntime(s, p, T, id) ==
  LET s0 == getOrCreateRecord(s, id)
      current == Val(Get(s0, id))
  IN {Out(Upsert(s0, [current EXCEPT !.runtime = CreatedRecord(id).runtime,
                                     !.state = "disconnected", !.error = None]),
          p, T, None)}

\* disconnect(instanceId)
disconnect(s, p, T, id) ==
  LET s0 == getOrCreateRecord(s, id)
      current == Val(Get(s0, id))
  IN {Out(Upsert(s0, [current EXCEPT !.state = "disconnected", !.error = None]),
          p, T, None)}

\* kill(instanceId): the set of possible results
kill(s, p, T, id) ==
  LET s0 == getOrCreateRecord(s, id)
      current == Val(Get(s0, id))
      terminalKey == getTerminalKey(id, current)
      s1 == Upsert(s0, [current EXCEPT !.state = "stopping", !.error = None])
  IN {IF k.ok
      THEN Out(Upsert(s1, [current EXCEPT !.runtime.pid = None,
                                          !.runtime.terminalKey = Some(terminalKey),
                                          !.state = "disconnected",
                                          !.error = None]),
               releaseTerminalPorts(p, terminalKey), k.terminals, None)
      ELSE Out(handleFailure(s1, current, "KillFailed"), p, k.terminals, Some("KillFailed"))
      : k \in killTerminal(T, terminalKey)}

RECURSIVE disposeFrom(_, _, _, _, _)
\* dispose(): the loop over getAll(), from the k-th record of the snapshot on;
\* a killTerminal that throws ends the loop and the call
disposeFrom(all, k, s, p, T) ==
  IF k > Len(all) THEN {Out(s, p, T, None)}
  ELSE
    LET record == all[k]
        terminalKey == getTerminalKey(record.config.id, record)
    IN UNION {
         IF kt.ok
         THEN disposeFrom(all, k + 1,
                          Upsert(s, [record EXCEPT !.runtime.pid = None,
                                                   !.state = "disconnected",
                                                   !.error = None]),
                          releaseTerminalPorts(p, terminalKey), kt.terminals)
         ELSE {Out(s, p, kt.terminals, Some("KillFailed"))}
         : kt \in killTerminal(T, terminalKey)}

dispose(s, p, T) == disposeFrom(GetAll(s), 1, s, p, T)

----
\* ConnectionResolver

Whitespace == {" "}

RECURSIVE TrimLeft(_)
TrimLeft(str) ==
  IF Len(str) > 0 /\ Head(str) \in Whitespace THEN TrimLeft(Tail(str)) ELSE str

RECURSIVE TrimRight(_)
TrimRight(str) ==
  IF Len(str) > 0 /\ str[Len(str)] \in Whitespace
  THEN TrimRight(SubSeq(str, 1, Len(str) - 1))
  ELSE str

RECURSIVE StripTrailingSlashes(_)
\* while (normalized.length > 1 && normalized.endsWith("/")) slice(0, -1)
StripTrailingSlashes(str) ==
  IF Len(str) > 1 /\ str[Len(str)] = "/"
  THEN StripTrailingSlashes(SubSeq(str, 1, Len(str) - 1))
  ELSE str

ToLowerChar(c) ==
  CASE c = "W" -> "w"
    [] c = "S" -> "s"
    [] c = "X" -> "x"
    [] OTHER -> c

normalizePath(pathValue) ==
  LET trimmed == TrimRight(TrimLeft(pathValue))
      slashed == [k \in 1..Len(trimmed) |-> IF trimmed[k] = "\\" THEN "/" ELSE trimmed[k]]
      stripped == StripTrailingSlashes(slashed)
  IN IF platform \in {"win32", "darwin"}
     THEN [k \in 1..Len(stripped) |-> ToLowerChar(stripped[k])]
     ELSE stripped

startsWith(str, prefix) ==
  Len(prefix) <= Len(str) /\ SubSeq(str, 1, Len(prefix)) = prefix

pathsMatch(path1, path2) ==
  LET normalizedA == normalizePath(path1)
      normalizedB == normalizePath(path2)
  IN IF Len(normalizedA) = 0 \/ Len(normalizedB) = 0 THEN FALSE
     ELSE IF normalizedA = normalizedB THEN TRUE
     ELSE \/ startsWith(normalizedA, normalizedB \o <<"/">>)
          \/ startsWith(normalizedB, normalizedA \o <<"/">>)

\* the characters of the paths given to pathsMatch: the two separators, a letter
\* in both cases, and white space
PathChars == {"/", "\\", "w", "W", " "}
PathInputs == UNION {[1..k -> PathChars] : k \in 0..MaxPathLen}

NoPathCall == [path1 |-> <<>>, path2 |-> <<>>, result |-> None]

\* resolver.pathsMatch(path1, path2) is called and returns
PathsMatchCall ==
  /\ pathCall.result = None
  /\ pathCall' = [pathCall EXCEPT !.result = Some(pathsMatch(pathCall.path1, pathCall.path2))]
  /\ UNCHANGED <<store, tasks, pm, terminals, pmResult, intervals, failureCounts, probes, hist,
                 timers, started, pmWired, resolverHasController, controllerHasResolver,
                 platform, workspaceFolder, limited, slots, recordEvents, mem, api>>

\* faulty variant: the stored port without the fallback to config.preferredPort
getStoredPort_NoFallback(record) ==
  IF IsSome(record) THEN Val(record).runtime.port ELSE None

getStoredPort(record) ==
  IF IsSome(record)
  THEN OrElse(Val(record).runtime.port, Val(record).config.preferredPort)
  ELSE None

getTargetWorkspacePath(record) ==
  IF IsSome(record) /\ IsSome(Val(record).config.workspaceUri)
     /\ Len(Val(Val(record).config.workspaceUri)) > 0
  THEN Val(record).config.workspaceUri
  ELSE workspaceFolder

RECURSIVE FindFrom(_, _, _)
\* instances.find(...): the first candidate from index k on that matches
FindFrom(instances, k, targetWorkspace) ==
  IF k > Len(instances) THEN None
  ELSE IF /\ IsSome(instances[k].workspacePath)
          /\ Len(Val(instances[k].workspacePath)) > 0
          /\ pathsMatch(Val(instances[k].workspacePath), targetWorkspace)
       THEN Some(instances[k])
       ELSE FindFrom(instances, k + 1, targetWorkspace)

\* faulty variant: the first candidate whatever the target
selectDiscoveredInstance_First(instances, targetWorkspace) ==
  IF Len(instances) > 0 THEN Some(instances[1]) ELSE None

selectDiscoveredInstance(instances, targetWorkspace) ==
  IF ~IsSome(targetWorkspace) \/ Len(Val(targetWorkspace)) = 0
  THEN IF Len(instances) > 0 THEN Some(instances[1]) ELSE None
  ELSE FindFrom(instances, 1, Val(targetWorkspace))

\* faulty variant: the patch loses the pid of the discovered process
syncRecordRuntime_DropsPid(s, current, patchPort, patchPid) ==
  IF ~IsSome(current) THEN s
  ELSE Upsert(s, [Val(current) EXCEPT
                    !.runtime.port = Some(patchPort),
                    !.runtime.lastSeenAt = Some(Now),
                    !.error = None,
                    !.state = "connected",
                    !.config.preferredPort = Some(patchPort)])

\* syncRecordRuntime(instanceId, current, runtimePatch)
syncRecordRuntime(s, current, patchPort, patchPid) ==
  IF ~IsSome(current) THEN s
  ELSE Upsert(s, [Val(current) EXCEPT
                    !.runtime.port = Some(patchPort),
                    !.runtime.pid = OrElse(patchPid, @),
                    !.runtime.lastSeenAt = Some(Now),
                    !.error = None,
                    !.state = "connected",
                    !.config.preferredPort = Some(patchPort)])

----
\* The resolve calls in progress

IdleTask ==
  [pc |-> "idle", id |-> "a", caller |-> "direct", current |-> None, record |-> None,
   updated |-> None, port |-> None, pid |-> None, result |-> None, spawnThrew |-> FALSE,
   threw |-> FALSE, calls |-> <<>>, touched |-> FALSE]

\* a new call takes the first free slot
FreeSlot(t) ==
  /\ t <= slots
  /\ tasks[t].pc = "idle"
  /\ \A u \in Tasks : u < t => tasks[u].pc # "idle"

\* history: every call in progress on id, except the one of task self, has seen
\* another operation on id
Touch(tk, id, self) ==
  [t \in Tasks |->
     IF t # self /\ tk[t].pc # "idle" /\ tk[t].id = id
     THEN [tk[t] EXCEPT !.touched = TRUE]
     ELSE tk[t]]

TouchAll(tk) ==
  [t \in Tasks |-> IF tk[t].pc # "idle" THEN [tk[t] EXCEPT !.touched = TRUE] ELSE tk[t]]

Candidates ==
  {[pid |-> 101, port |-> MIN_PORT, workspacePath |-> None],
   [pid |-> 102, port |-> MIN_PORT + 1, workspacePath |-> Some(PathWSub)],
   [pid |-> 102, port |-> MIN_PORT, workspacePath |-> Some(PathX)]}

\* what discoverInstances() can return; None is a rejected scan
DiscoveryResults ==
  {None, Some(<<>>)} \cup {Some(<<c>>) : c \in Candidates}
  \cup {Some(<<c, d>>) : c \in Candidates, d \in Candidates}

\* a health probe returns healthy, returns unhealthy, or throws
ProbeOutcomes == {"healthy", "unhealthy", "throw"}

envVars == <<pmWired, resolverHasController, controllerHasResolver, platform, workspaceFolder,
             limited, slots, recordEvents, mem, api, pathCall>>
cfgVars == <<envVars, started>>

\* a caller starts an operation
Begin ==
  IF limited
  THEN started < MaxStarted /\ started' = started + 1
  ELSE started' = started
pollerVars == <<intervals, failureCounts, probes, hist, timers>>
ctlVars == <<pm, terminals, pmResult>>

\* history: an entry of the log of a call
Log(call, port) == [call |-> call, port |-> port]

\* faulty variant: healthCheck without its try/catch
healthCheck_Propagates(outcome) ==
  IF outcome = "healthy" THEN "true" ELSE IF outcome = "throw" THEN "throw" ELSE "false"

\* healthCheck(instanceId, port): the result of the probe, false when it throws
healthCheck(outcome) ==
  IF outcome = "healthy" THEN "true" ELSE "false"

\* ConnectionResolver.resolve up to its first await: Tier 1
BeginResolve(task, s, id) ==
  LET record == Get(s, id)
      storedPort == getStoredPort(record)
      base == [task EXCEPT !.id = id, !.record = record]
  IN IF IsSome(storedPort)
     THEN [base EXCEPT !.pc = "t2probe", !.port = storedPort,
                       !.calls = <<Log("health", storedPort)>>]
     ELSE [base EXCEPT !.pc = "t3scan", !.calls = <<Log("discover", None)>>]

\* resolve(instanceId) called by an outside caller
ResolveStart(t, id) ==
  /\ FreeSlot(t)
  /\ tasks' = Touch([tasks EXCEPT ![t] = BeginResolve(IdleTask, store, id)], id, t)
  /\ UNCHANGED <<store, ctlVars, pollerVars, envVars>>
  /\ Begin

\* Tier 2: the probe of the stored port completes; resolve has no try around it
T2ProbeDone(t, outcome) ==
  LET task == tasks[t]
      port == Val(task.port)
      healthy == healthCheck(outcome)
      logged == Append(task.calls, Log(outcome, None))
  IN /\ task.pc = "t2probe"
     /\ CASE healthy = "true" ->
               /\ store' = syncRecordRuntime(Fresh(store), task.record, port, None)
               /\ tasks' = Touch([tasks EXCEPT ![t].pc = "ret",
                                               ![t].result = Some(port),
                                               ![t].calls = logged],
                                 task.id, t)
          [] healthy = "false" ->
               /\ store' = store
               /\ tasks' = Touch([tasks EXCEPT ![t].pc = "t3scan",
                                               ![t].port = None,
                                               ![t].calls = Append(logged, Log("discover", None))],
                                 task.id, t)
          [] OTHER ->
               /\ store' = store
               /\ tasks' = Touch([tasks EXCEPT ![t].pc = "ret",
                                               ![t].port = None,
                                               ![t].threw = TRUE,
                                               ![t].calls = logged],
                                 task.id, t)
     /\ UNCHANGED <<ctlVars, pollerVars, cfgVars>>

\* Tier 3 from the end of the discovery scan to the next await: the task that
\* probes the matched candidate, or that goes on to Tier 4
T3AfterScan(task, discovered) ==
  LET matched == IF IsSome(discovered) /\ Len(Val(discovered)) > 0
                 THEN selectDiscoveredInstance(Val(discovered),
                                               getTargetWorkspacePath(task.record))
                 ELSE None
      logged == Append(task.calls,
                       Log(IF IsSome(discovered) THEN "scanned" ELSE "rejected", None))
  IN IF IsSome(matched)
     THEN [task EXCEPT !.pc = "t3probe",
                       !.port = Some(Val(matched).port),
                       !.pid = Some(Val(matched).pid),
                       !.calls = Append(logged, Log("health", Some(Val(matched).port)))]
     ELSE [task EXCEPT !.pc = "t4start", !.calls = logged]

\* Tier 3: the discovery scan completes; a rejected scan is caught
T3ScanDone(t, discovered) ==
  /\ tasks[t].pc = "t3scan"
  /\ tasks' = Touch([tasks EXCEPT ![t] = T3AfterScan(tasks[t], discovered)],
                    tasks[t].id, t)
  /\ UNCHANGED <<store, ctlVars, pollerVars, cfgVars>>

\* Tier 3: the probe of the matched candidate completes; a throw is caught
T3ProbeDone(t, outcome) ==
  LET task == tasks[t]
      port == Val(task.port)
      logged == Append(task.calls, Log(outcome, None))
  IN /\ task.pc = "t3probe"
     /\ IF healthCheck(outcome) = "true"
        THEN /\ store' = syncRecordRuntime(Fresh(store), task.record, port, task.pid)
             /\ tasks' = Touch([tasks EXCEPT ![t].pc = "ret",
                                             ![t].result = Some(port),
                                             ![t].calls = logged],
                               task.id, t)
        ELSE /\ store' = store
             /\ tasks' = Touch([tasks EXCEPT ![t].pc = "t4start",
                                             ![t].port = None,
                                             ![t].pid = None,
                                             ![t].calls = logged],
                               task.id, t)
     /\ UNCHANGED <<ctlVars, pollerVars, cfgVars>>

\* faulty variant: resolveFromSpawn without the test of this.controller
T4Start_IgnoresController(t) ==
  LET task == tasks[t]
      hint == IF IsSome(task.record) THEN Val(task.record).config.preferredPort ELSE None
  IN /\ task.pc = "t4start"
     /\ \E o \in spawn(Fresh(store), pm, terminals, task.id, hint) :
          /\ store' = o.store
          /\ pm' = o.pm
          /\ terminals' = o.terminals
          /\ tasks' = Touch([tasks EXCEPT
                               ![t].pc = "t4spawned",
                               ![t].spawnThrew = IsSome(o.err),
                               ![t].calls = Append(@, Log("spawn", hint))],
                            task.id, t)
     /\ UNCHANGED <<pollerVars, cfgVars, pmResult>>

\* Tier 4: resolveFromSpawn up to its await of controller.spawn
T4Start(t) ==
  LET task == tasks[t]
      hint == IF IsSome(task.record) THEN Val(task.record).config.preferredPort ELSE None
  IN /\ task.pc = "t4start"
     /\ IF ~resolverHasController
        THEN /\ tasks' = Touch([tasks EXCEPT ![t].pc = "ret"], task.id, t)
             /\ UNCHANGED <<store, pm, terminals>>
        ELSE \E o \in spawn(Fresh(store), pm, terminals, task.id, hint) :
               /\ store' = o.store
               /\ pm' = o.pm
               /\ terminals' = o.terminals
               /\ tasks' = Touch([tasks EXCEPT
                                    ![t].pc = "t4spawned",
                                    ![t].spawnThrew = IsSome(o.err),
                                    ![t].calls = Append(@, Log("spawn", hint))],
                                 task.id, t)
     /\ UNCHANGED <<pollerVars, cfgVars, pmResult>>

\* faulty variant: the record is not read again after the spawn
T4AfterSpawn_NoReread(t) ==
  LET task == tasks[t]
      updated == task.record
      spawnedPort == getStoredPort(updated)
      logged == Append(task.calls,
                       Log(IF task.spawnThrew THEN "rejected" ELSE "spawned", None))
  IN /\ task.pc = "t4spawned"
     /\ IF task.spawnThrew \/ ~IsSome(spawnedPort)
        THEN tasks' = Touch([tasks EXCEPT ![t].pc = "ret", ![t].calls = logged],
                            task.id, t)
        ELSE tasks' = Touch([tasks EXCEPT
                               ![t].pc = "t4probe",
                               ![t].updated = updated,
                               ![t].port = spawnedPort,
                               ![t].calls = Append(logged, Log("health", spawnedPort))],
                            task.id, t)
     /\ UNCHANGED <<store, ctlVars, pollerVars, cfgVars>>

\* Tier 4: after the await of controller.spawn; a rejected spawn is caught
T4AfterSpawn(t) ==
  LET task == tasks[t]
      updated == Get(store, task.id)
      spawnedPort == getStoredPort(updated)
      logged == Append(task.calls,
                       Log(IF task.spawnThrew THEN "rejected" ELSE "spawned", None))
  IN /\ task.pc = "t4spawned"
     /\ IF task.spawnThrew \/ ~IsSome(spawnedPort)
        THEN tasks' = Touch([tasks EXCEPT ![t].pc = "ret", ![t].calls = logged],
                            task.id, t)
        ELSE tasks' = Touch([tasks EXCEPT
                               ![t].pc = "t4probe",
                               ![t].updated = updated,
                               ![t].port = spawnedPort,
                               ![t].calls = Append(logged, Log("health", spawnedPort))],
                            task.id, t)
     /\ UNCHANGED <<store, ctlVars, pollerVars, cfgVars>>

\* Tier 4: the probe of the spawned port completes; a throw is caught
T4ProbeDone(t, outcome) ==
  LET task == tasks[t]
      port == Val(task.port)
      logged == Append(task.calls, Log(outcome, None))
  IN /\ task.pc = "t4probe"
     /\ IF healthCheck(outcome) = "true"
        THEN /\ store' = syncRecordRuntime(Fresh(store), task.updated, port, None)
             /\ tasks' = Touch([tasks EXCEPT ![t].pc = "ret",
                                             ![t].result = Some(port),
                                             ![t].calls = logged],
                               task.id, t)
        ELSE /\ store' = store
             /\ tasks' = Touch([tasks EXCEPT ![t].pc = "ret",
                                             ![t].port = None,
                                             ![t].calls = logged],
                               task.id, t)
     /\ UNCHANGED <<ctlVars, pollerVars, cfgVars>>

\* the caller receives the result of the call
TaskReturn(t) ==
  /\ \/ tasks[t].pc = "ret" /\ tasks[t].caller = "direct"
     \/ tasks[t].pc = "ctlret"
  /\ tasks' = [tasks EXCEPT ![t] = IdleTask]
  /\ UNCHANGED <<store, ctlVars, pollerVars, cfgVars>>

----
\* InstanceController operations

Apply(o, id) ==
  /\ store' = o.store
  /\ pm' = o.pm
  /\ terminals' = o.terminals
  /\ tasks' = Touch(tasks, id, 0)
  /\ UNCHANGED <<pollerVars, envVars, pmResult>>
  /\ Begin

CtlSpawn(id, optPort) ==
  \E o \in spawn(Fresh(store), pm, terminals, id, optPort) : Apply(o, id)

CtlConnect(id, port) ==
  \E o \in connect(Fresh(store), pm, terminals, id, port) : Apply(o, id)

CtlDisconnect(id) ==
  \E o \in disconnect(Fresh(store), pm, terminals, id) : Apply(o, id)

CtlKill(id) ==
  \E o \in kill(Fresh(store), pm, terminals, id) : Apply(o, id)

CtlDispose ==
  \E o \in dispose(Fresh(store), pm, terminals) :
    /\ store' = o.store
    /\ pm' = o.pm
    /\ terminals' = o.terminals
    /\ tasks' = TouchAll(tasks)
    /\ UNCHANGED <<pollerVars, envVars, pmResult>>
    /\ Begin

\* InstanceController.resolve(instanceId) up to its first await, or to its end
\* when it has none
CtlResolveStart(t, id) ==
  LET current == Get(store, id)
      cur == Val(current)
      s1 == Upsert(Fresh(store), [cur EXCEPT !.state = "resolving", !.error = None])
      mine == [IdleTask EXCEPT !.id = id, !.caller = "ctl", !.current = current]
      port == cur.runtime.port
  IN /\ FreeSlot(t)
     /\ IF ~IsSome(current)
        THEN /\ tasks' = Touch([tasks EXCEPT ![t] = [mine EXCEPT !.pc = "ctlret"]], id, t)
             /\ store' = store
        ELSE IF controllerHasResolver
        THEN /\ tasks' = Touch([tasks EXCEPT ![t] = BeginResolve(mine, s1, id)], id, t)
             /\ store' = s1
        ELSE /\ tasks' = Touch([tasks EXCEPT ![t] = [mine EXCEPT !.pc = "ctlret",
                                                                 !.result = port]],
                               id, t)
             /\ store' = Upsert(s1, [cur EXCEPT
                                       !.state = IF IsSome(port) THEN "connected"
                                                 ELSE "disconnected",
                                       !.error = None])
     /\ UNCHANGED <<ctlVars, pollerVars, envVars>>
     /\ Begin

\* faulty variant: a failed resolution is not recorded
CtlResolveDone_KeepsResolving(t) ==
  LET task == tasks[t]
      latest == Val(OrElse(Get(store, task.id), task.current))
  IN /\ task.pc = "ret"
     /\ task.caller = "ctl"
     /\ IF IsSome(task.result)
        THEN store' = Upsert(Fresh(store), [latest EXCEPT !.runtime.port = task.result,
                                                          !.state = "connected",
                                                          !.error = None])
        ELSE store' = store
     /\ tasks' = Touch([tasks EXCEPT ![t].pc = "ctlret", ![t].threw = FALSE], task.id, t)
     /\ UNCHANGED <<ctlVars, pollerVars, cfgVars>>

\* InstanceController.resolve after its await of connectionResolver.resolve
CtlResolveDone(t) ==
  LET task == tasks[t]
      latest == Val(OrElse(Get(store, task.id), task.current))
  IN /\ task.pc = "ret"
     /\ task.caller = "ctl"
     /\ IF task.threw
        THEN store' = Upsert(Fresh(store), [latest EXCEPT !.state = "error",
                                                          !.error = Some("ProbeFailed")])
        ELSE IF IsSome(task.result)
        THEN store' = Upsert(Fresh(store), [latest EXCEPT !.runtime.port = task.result,
                                                          !.state = "connected",
                                                          !.error = None])
        ELSE store' = Upsert(Fresh(store), [latest EXCEPT
                                              !.state = "error",
                                              !.error = Some(UnableToResolveMessage)])
     /\ tasks' = Touch([tasks EXCEPT ![t].pc = "ctlret", ![t].threw = FALSE], task.id, t)
     /\ UNCHANGED <<ctlVars, pollerVars, cfgVars>>

----
\* HealthPoller

skippedStates == {"stopping", "spawning"}

NoProbes == [fresh |-> 0, stale |-> 0]

NoHistory == [failures |-> 0, last |-> "none", whileConnected |-> 0]

\* failureCounts.get(instanceId) ?? 0
FailureCount(fc, id) == IF id \in DOMAIN fc THEN fc[id] ELSE 0

\* faulty variant: start does not look for an existing timer
start_NoHasCheck(iv, tm, s, id) ==
  IF ~Has(s, id) \/ Val(Get(s, id)).state \in skippedStates
  THEN [intervals |-> iv, timers |-> tm]
  ELSE [intervals |-> iv \cup {id}, timers |-> [tm EXCEPT ![id] = @ + 1]]

\* start(instanceId) on the map of the poller and the timers
start(iv, tm, s, id) ==
  IF id \in iv THEN [intervals |-> iv, timers |-> tm]
  ELSE IF ~Has(s, id) \/ Val(Get(s, id)).state \in skippedStates
  THEN [intervals |-> iv, timers |-> tm]
  ELSE [intervals |-> iv \cup {id}, timers |-> [tm EXCEPT ![id] = @ + 1]]

\* start(instanceId)
HPStart(id) ==
  LET r == start(intervals, timers, store, id)
  IN /\ r.intervals # intervals
     /\ intervals' = r.intervals
     /\ timers' = r.timers
     /\ UNCHANGED <<store, ctlVars, tasks, failureCounts, probes, hist, envVars>>
     /\ Begin

\* stop(instanceId) on the maps of the poller and the timers
stop(iv, fc, tm, id) ==
  IF id \notin iv THEN [intervals |-> iv, failureCounts |-> fc, timers |-> tm]
  ELSE [intervals |-> iv \ {id},
        failureCounts |-> MapDelete(fc, id),
        timers |-> [tm EXCEPT ![id] = @ - 1]]

\* stop(instanceId); without a timer it returns at once.  A probe in flight
\* becomes one launched before the last stop.
HPStop(id) ==
  LET r == stop(intervals, failureCounts, timers, id)
  IN /\ intervals' = r.intervals
     /\ failureCounts' = r.failureCounts
     /\ timers' = r.timers
     /\ probes' = [probes EXCEPT ![id] = [fresh |-> 0, stale |-> @.fresh + @.stale]]
     /\ hist' = [hist EXCEPT ![id] = NoHistory]
     /\ UNCHANGED <<store, ctlVars, tasks, envVars>>
     /\ Begin

StopAllEffect ==
  /\ intervals' = {}
  /\ timers' = [i \in Ids |-> IF i \in intervals THEN timers[i] - 1 ELSE timers[i]]
  /\ failureCounts' = EmptyMap
  /\ probes' = [i \in Ids |-> [fresh |-> 0, stale |-> probes[i].fresh + probes[i].stale]]
  /\ hist' = [i \in Ids |-> NoHistory]
  /\ UNCHANGED <<store, ctlVars, tasks, envVars>>
  /\ Begin

\* stopAll()
HPStopAll == StopAllEffect

\* dispose()
HPDispose == StopAllEffect

\* record.runtime.port is truthy: defined and not 0
HasTruthyPort(record) == IsSome(record.runtime.port) /\ Val(record.runtime.port) # 0

\* a timer fires: checkHealth(instanceId) up to its await of the probe
HPTick(id) ==
  /\ timers[id] > 0
  /\ Has(store, id)
  /\ HasTruthyPort(Val(Get(store, id)))
  /\ probes[id].fresh + probes[id].stale < MaxProbes
  /\ probes' = [probes EXCEPT ![id].fresh = @ + 1]
  /\ tasks' = Touch(tasks, id, 0)
  /\ UNCHANGED <<store, ctlVars, intervals, failureCounts, hist, timers, cfgVars>>

\* a timer fires: checkHealth(instanceId) returns at once, the instance being
\* absent from the store or without a port
HPTickSkipped(id) ==
  /\ timers[id] > 0
  /\ ~(Has(store, id) /\ HasTruthyPort(Val(Get(store, id))))
  /\ hist' = [hist EXCEPT ![id].last = "skipped"]
  /\ UNCHANGED <<store, tasks, ctlVars, intervals, failureCounts, probes, timers, cfgVars>>

MergeOk(health, ok) ==
  IF IsSome(health) THEN Some([Val(health) EXCEPT !.ok = ok])
  ELSE Some([ok |-> ok, version |-> None])

\* faulty variant: the failure writes a new health object
HPhandleFailure_Overwrites(id) ==
  IF ~Has(store, id)
  THEN /\ hist' = [hist EXCEPT ![id].last = "failed"]
       /\ UNCHANGED <<store, failureCounts>>
  ELSE LET instance == Val(Get(store, id))
           nextFailureCount == FailureCount(failureCounts, id) + 1
       IN /\ failureCounts' = MapSet(failureCounts, id, nextFailureCount)
          /\ hist' = [hist EXCEPT ![id] = [failures |-> @.failures + 1, last |-> "failed",
                                         whileConnected |-> @.whileConnected +
                                           (IF instance.state = "connected" THEN 1 ELSE 0)]]
          /\ IF nextFailureCount >= FAILURE_THRESHOLD /\ instance.state = "connected"
             THEN store' = Upsert(Fresh(store),
                                  [instance EXCEPT !.state = "error",
                                                   !.error = Some(HealthFailedMessage),
                                                   !.health = Some([ok |-> FALSE, version |-> None])])
             ELSE store' = Upsert(Fresh(store),
                                  [instance EXCEPT !.health = Some([ok |-> FALSE, version |-> None])])

\* handleFailure(instanceId)
HPhandleFailure(id) ==
  IF ~Has(store, id)
  THEN /\ hist' = [hist EXCEPT ![id].last = "failed"]
       /\ UNCHANGED <<store, failureCounts>>
  ELSE LET instance == Val(Get(store, id))
           nextFailureCount == FailureCount(failureCounts, id) + 1
       IN /\ failureCounts' = MapSet(failureCounts, id, nextFailureCount)
          /\ hist' = [hist EXCEPT ![id] = [failures |-> @.failures + 1, last |-> "failed",
                                         whileConnected |-> @.whileConnected +
                                           (IF instance.state = "connected" THEN 1 ELSE 0)]]
          /\ IF nextFailureCount >= FAILURE_THRESHOLD /\ instance.state = "connected"
             THEN store' = Upsert(Fresh(store),
                                  [instance EXCEPT !.state = "error",
                                                   !.error = Some(HealthFailedMessage),
                                                   !.health = MergeOk(@, FALSE)])
             ELSE store' = Upsert(Fresh(store),
                                  [instance EXCEPT !.health = MergeOk(@, FALSE)])

\* faulty variant: the recovery from error keeps the message
HPhandleSuccess_KeepsError(id) ==
  /\ hist' = [hist EXCEPT ![id] = [failures |-> 0, last |-> "healthy", whileConnected |-> 0]]
  /\ IF ~Has(store, id)
     THEN UNCHANGED <<store, failureCounts>>
     ELSE LET instance == Val(Get(store, id))
          IN /\ failureCounts' = MapDelete(failureCounts, id)
             /\ store' = Upsert(Fresh(store),
                                [instance EXCEPT
                                   !.state = IF @ = "error" THEN "connected" ELSE @,
                                   !.health = MergeOk(@, TRUE)])

\* handleSuccess(instanceId)
HPhandleSuccess(id) ==
  /\ hist' = [hist EXCEPT ![id] = [failures |-> 0, last |-> "healthy", whileConnected |-> 0]]
  /\ IF ~Has(store, id)
     THEN UNCHANGED <<store, failureCounts>>
     ELSE LET instance == Val(Get(store, id))
          IN /\ failureCounts' = MapDelete(failureCounts, id)
             /\ store' = Upsert(Fresh(store),
                                [instance EXCEPT
                                   !.state = IF @ = "error" THEN "connected" ELSE @,
                                   !.error = IF instance.state = "error" THEN None ELSE @,
                                   !.health = MergeOk(@, TRUE)])

\* checkHealth(instanceId) after its await: a probe in flight completes
HPProbeDone(id, kind, outcome) ==
  /\ probes[id][kind] > 0
  /\ outcome = "healthy" \/ FailureCount(failureCounts, id) < MaxFailures
  /\ probes' = [probes EXCEPT ![id][kind] = @ - 1]
  /\ IF outcome = "healthy" THEN HPhandleSuccess(id) ELSE HPhandleFailure(id)
  /\ tasks' = Touch(tasks, id, 0)
  /\ UNCHANGED <<ctlVars, intervals, timers, cfgVars>>

----
\* Other users of the InstanceStore

\* a record hydrated from the persisted configuration, or created by a command
Hydrate(id, workspaceUri, preferredPort) ==
  /\ ~Has(store, id)
  /\ store' = Upsert(Fresh(store),
                     [CreatedRecord(id) EXCEPT !.config.workspaceUri = workspaceUri,
                                               !.config.preferredPort = preferredPort])
  /\ tasks' = Touch(tasks, id, 0)
  /\ UNCHANGED <<ctlVars, pollerVars, envVars>>
  /\ Begin

StoreRemove(id) ==
  /\ Has(store, id)
  /\ store' = Remove(Fresh(store), id)
  /\ tasks' = Touch(tasks, id, 0)
  /\ UNCHANGED <<ctlVars, pollerVars, envVars>>
  /\ Begin

\* faulty variant: upsert makes the id it writes active, whatever id was
StoreUpsert_Activates(id, state) ==
  /\ LET s == Fresh(store)
         rec == [CreatedRecord(id) EXCEPT !.state = state]
         existed == Has(s, id)
         s1 == [s EXCEPT !.recs[id] = Some(rec),
                         !.order = IF existed THEN @ ELSE Append(@, id)]
         s2 == Emit([s1 EXCEPT !.active = Some(id)], Event("setActive", id))
         s3 == IF ~existed THEN Emit(s2, Event("add", rec)) ELSE s2
     IN store' = Emit(s3, Event("change", GetAll(s3)))
  /\ tasks' = Touch(tasks, id, 0)
  /\ UNCHANGED <<ctlVars, pollerVars, envVars>>
  /\ Begin

\* upsert(record) by any user of the store
StoreUpsert(id, state) ==
  /\ store' = Upsert(Fresh(store), [CreatedRecord(id) EXCEPT !.state = state])
  /\ tasks' = Touch(tasks, id, 0)
  /\ UNCHANGED <<ctlVars, pollerVars, envVars>>
  /\ Begin

\* upsert(record) by a user of the store that knows the runtime and the health
\* of the instance
StoreUpsertFull(id, port, state, health) ==
  /\ store' = Upsert(Fresh(store),
                     [CreatedRecord(id) EXCEPT
                        !.config.preferredPort = Some(MIN_PORT + 1),
                        !.runtime.port = port,
                        !.runtime.pid = IF IsSome(port) THEN Some(1) ELSE None,
                        !.state = state,
                        !.error = IF state = "error" THEN Some("failed") ELSE None,
                        !.health = health])
  /\ tasks' = Touch(tasks, id, 0)
  /\ UNCHANGED <<ctlVars, pollerVars, envVars>>
  /\ Begin

StoreSetActive(id) ==
  /\ store' = setActive(Fresh(store), id).store
  /\ UNCHANGED <<tasks, ctlVars, pollerVars, envVars>>
  /\ Begin

\* the holders of record objects make at most MaxHeapOps calls
MemBegin == mem.ops < MaxHeapOps

MemVarsUnchanged ==
  UNCHANGED <<store, tasks, ctlVars, pollerVars, started, pmWired, resolverHasController,
              controllerHasResolver, platform, workspaceFolder, limited, slots, recordEvents, api, pathCall>>

\* a caller builds a record, passes it to upsert and keeps it
MemUpsertNew(id, full) ==
  /\ MemBegin
  /\ LET n == NewRecord(mem.heap, id, full)
         m == MemUpsert([mem EXCEPT !.heap = n.heap], n.addr)
     IN mem' = [m EXCEPT !.held = @ \cup {n.addr}, !.ops = @ + 1]
  /\ MemVarsUnchanged

\* a holder passes its record object to upsert
MemUpsertHeld(a) ==
  /\ MemBegin
  /\ a \in mem.held
  /\ mem' = [MemUpsert(mem, a) EXCEPT !.ops = @ + 1]
  /\ MemVarsUnchanged

\* a caller keeps the record get(id) returns
MemGetStep(id) ==
  /\ MemBegin
  /\ LET g == MemGet(mem, id)
     IN mem' = [mem EXCEPT !.heap = g.heap,
                           !.held = IF IsSome(g.addr) THEN @ \cup {Val(g.addr)} ELSE @,
                           !.ops = @ + 1]
  /\ MemVarsUnchanged

\* a caller keeps the records getAll() returns
MemGetAllStep ==
  /\ MemBegin
  /\ LET all == MemGetAll(mem)
     IN mem' = [mem EXCEPT !.heap = all.heap,
                           !.held = @ \cup {all.addrs[k] : k \in 1..Len(all.addrs)},
                           !.ops = @ + 1]
  /\ MemVarsUnchanged

\* a holder assigns to a part of its record object
MemMutate(a, part) ==
  /\ MemBegin
  /\ a \in mem.held
  /\ mem' = [mem EXCEPT !.heap = Mutated(mem.heap, a, part), !.ops = @ + 1]
  /\ MemVarsUnchanged

----
\* PortManager called directly

PMKeys == {"", "t1", "t2"}

\* a call of the PortManager: its name, its key and port arguments (with fraction,
\* the number passed is the port plus one half), what it returned and what it threw
NoResult == [op |-> "none", key |-> None, req |-> None, fraction |-> FALSE, val |-> None, err |-> None]

PMReserve(port) ==
  LET r == reservePort(pm, port)
  IN /\ pm' = r.pm
     /\ pmResult' = [op |-> "reservePort", key |-> None, req |-> Some(port), fraction |-> FALSE, val |-> None,
                      err |-> r.err]
     /\ UNCHANGED <<store, terminals, tasks, pollerVars, envVars>>
     /\ Begin

PMReserveFraction(port) ==
  LET r == reservePortFraction(pm, port)
  IN /\ pm' = r.pm
     /\ pmResult' = [op |-> "reservePort", key |-> None, req |-> Some(port),
                      fraction |-> TRUE, val |-> None, err |-> r.err]
     /\ UNCHANGED <<store, terminals, tasks, pollerVars, envVars>>
     /\ Begin

PMAssignFraction(key, port) ==
  LET a == assignFractionToTerminal(pm, key, port)
  IN /\ pm' = a.pm
     /\ pmResult' = [op |-> "assignPortToTerminal", key |-> Some(key), req |-> Some(port),
                      fraction |-> TRUE, val |-> a.val, err |-> a.err]
     /\ UNCHANGED <<store, terminals, tasks, pollerVars, envVars>>
     /\ Begin

PMRelease(port) ==
  /\ pm' = releasePort(pm, port)
  /\ pmResult' = [op |-> "releasePort", key |-> None, req |-> Some(port), fraction |-> FALSE, val |-> None,
                  err |-> None]
  /\ UNCHANGED <<store, terminals, tasks, pollerVars, envVars>>
  /\ Begin

PMAssign(key, port) ==
  /\ \E a \in assignPortToTerminal(pm, store, key, port) :
       /\ pm' = a.pm
       /\ pmResult' = [op |-> "assignPortToTerminal", key |-> Some(key), req |-> port, fraction |-> FALSE,
                      val |-> a.val, err |-> a.err]
  /\ UNCHANGED <<store, terminals, tasks, pollerVars, envVars>>
  /\ Begin

PMReleaseTerminal(key) ==
  /\ pm' = releaseTerminalPorts(pm, key)
  /\ pmResult' = [op |-> "releaseTerminalPorts", key |-> Some(key), req |-> None, fraction |-> FALSE,
                  val |-> None, err |-> None]
  /\ UNCHANGED <<store, terminals, tasks, pollerVars, envVars>>
  /\ Begin

\* getAvailablePort() reserves nothing
PMGetAvailable ==
  /\ \E r \in getAvailablePort(pm, store) :
       pmResult' = [op |-> "getAvailablePort", key |-> None, req |-> None, fraction |-> FALSE, val |-> r,
                    err |-> IF IsSome(r) THEN None ELSE Some("Exhausted")]
  /\ UNCHANGED <<store, pm, terminals, tasks, pollerVars, envVars>>
  /\ Begin

PMClear ==
  /\ pm' = EmptyPortManager
  /\ pmResult' = [op |-> "clear", key |-> None, req |-> None, fraction |-> FALSE, val |-> None, err |-> None]
  /\ UNCHANGED <<store, terminals, tasks, pollerVars, envVars>>
  /\ Begin

----
\* OpenCodeApiClient

\* what one call of fetch can do: resolve with a response (ok with status "ok",
\* ok with another status, ok with a body that is not JSON, not ok), reject with
\* a network error, or reject with the AbortError of the timeout
Responses == {"ok", "okStatusError", "okBadJson", "notOk"}
Rejections == {"network", "abort"}
FetchOutcomes == Responses \cup Rejections

ApiOps == {"healthCheck", "appendPrompt"}

\* pc: idle, fetch (a fetch is awaited), sleep (the backoff is awaited), done
\* fetches, sleeps: the outcomes of the fetch calls and the delays slept, in order
IdleClient ==
  [pc |-> "idle", op |-> "", maxRetries |-> 0, baseDelay |-> 0, retries |-> 0,
   fetches |-> <<>>, sleeps |-> <<>>, fetched |-> "", result |-> ""]

\* new OpenCodeApiClient(port, maxRetries, baseDelay) and the first
\* fetchWithRetry(url, options, this.maxRetries) of a request
NewRequest(op, maxRetries, baseDelay) ==
  [IdleClient EXCEPT !.pc = "fetch", !.op = op, !.maxRetries = maxRetries,
                     !.baseDelay = baseDelay, !.retries = maxRetries]

\* faulty variant: the budget is tested with retries < 0
fetchWithRetry_OneMore(c, outcome) ==
  LET tried == [c EXCEPT !.fetches = Append(@, outcome)]
      attemptNumber == c.maxRetries - c.retries + 1
  IN IF outcome \in Responses
     THEN [tried EXCEPT !.pc = "returned", !.fetched = outcome]
     ELSE IF c.retries < 0
          THEN [tried EXCEPT !.pc = "thrown",
                             !.fetched = IF outcome = "abort" THEN "TIMEOUT_EXHAUSTED"
                                         ELSE "MAX_RETRIES_EXHAUSTED"]
          ELSE [tried EXCEPT !.pc = "sleep",
                             !.sleeps = Append(@, c.baseDelay * 2 ^ (attemptNumber - 1))]

\* fetchWithRetry(url, options, retries) from the completion of its fetch to its
\* return, its throw, or the await of its sleep
fetchWithRetry(c, outcome) ==
  LET tried == [c EXCEPT !.fetches = Append(@, outcome)]
      attemptNumber == c.maxRetries - c.retries + 1
  IN IF outcome \in Responses
     THEN [tried EXCEPT !.pc = "returned", !.fetched = outcome]
     ELSE IF c.retries <= 0
          THEN [tried EXCEPT !.pc = "thrown",
                             !.fetched = IF outcome = "abort" THEN "TIMEOUT_EXHAUSTED"
                                         ELSE "MAX_RETRIES_EXHAUSTED"]
          ELSE [tried EXCEPT !.pc = "sleep",
                             !.sleeps = Append(@, c.baseDelay * 2 ^ (attemptNumber - 1))]

\* healthCheck() after fetchWithRetry settled: false for a response that is not
\* ok, data.status === "ok" for one that is, false for anything thrown
apiHealthCheck(c) ==
  [c EXCEPT !.pc = "done",
            !.result = IF c.pc = "returned" /\ c.fetched = "ok" THEN "true" ELSE "false"]

\* appendPrompt() after fetchWithRetry settled: the error of fetchWithRetry
\* propagates, a response that is not ok throws an error with its statusCode
appendPrompt(c) ==
  [c EXCEPT !.pc = "done",
            !.result = IF c.pc = "thrown" THEN c.fetched
                       ELSE IF c.fetched = "notOk" THEN "throws statusCode"
                       ELSE "void"]

\* the caller of fetchWithRetry continues when it settled
Settle(c) ==
  IF c.pc = "sleep" THEN c
  ELSE IF c.op = "healthCheck" THEN apiHealthCheck(c) ELSE appendPrompt(c)

ApiVarsUnchanged ==
  UNCHANGED <<store, tasks, ctlVars, pollerVars, started, pmWired, resolverHasController,
              controllerHasResolver, platform, workspaceFolder, limited, slots, recordEvents, mem, pathCall>>

\* a caller constructs a client and calls healthCheck() or appendPrompt(prompt)
ApiCall(op, maxRetries, baseDelay) ==
  /\ api.pc = "idle"
  /\ api' = NewRequest(op, maxRetries, baseDelay)
  /\ ApiVarsUnchanged

\* the fetch of the current attempt settles
ApiFetchDone(outcome) ==
  /\ api.pc = "fetch"
  /\ api' = Settle(fetchWithRetry(api, outcome))
  /\ ApiVarsUnchanged

\* the sleep ends: return this.fetchWithRetry(url, options, retries - 1)
ApiSleepDone ==
  /\ api.pc = "sleep"
  /\ api' = [api EXCEPT !.pc = "fetch", !.retries = @ - 1]
  /\ ApiVarsUnchanged

----
\* Specifications

InitOthers ==
  /\ store = EmptyStore
  /\ terminals = {}
  /\ intervals = {}
  /\ failureCounts = EmptyMap
  /\ probes = [i \in Ids |-> NoProbes]
  /\ tasks = [t \in Tasks |-> IdleTask]
  /\ pmResult = NoResult
  /\ started = 0
  /\ hist = [i \in Ids |-> NoHistory]
  /\ timers = [i \in Ids |-> 0]
  /\ mem = EmptyMem
  /\ api = IdleClient

InitState ==
  /\ pm = EmptyPortManager
  /\ InitOthers
  /\ pathCall = NoPathCall

OptPorts == {None} \cup {Some(q) : q \in PoolPorts}

ControllerStep(ids, optPorts, ports) ==
  \/ \E id \in ids, optPort \in optPorts : CtlSpawn(id, optPort)
  \/ \E id \in ids, port \in ports : CtlConnect(id, port)
  \/ \E id \in ids : CtlDisconnect(id)
  \/ \E id \in ids : CtlKill(id)
  \/ CtlDispose

ResolveCall(ids) ==
  \/ \E t \in Tasks, id \in ids : ResolveStart(t, id)
  \/ \E t \in Tasks, id \in ids : CtlResolveStart(t, id)

ResolveStep(scans, outcomes) ==
  \/ \E t \in Tasks, outcome \in outcomes : T2ProbeDone(t, outcome)
  \/ \E t \in Tasks, discovered \in scans : T3ScanDone(t, discovered)
  \/ \E t \in Tasks, outcome \in outcomes : T3ProbeDone(t, outcome)
  \/ \E t \in Tasks : T4Start(t)
  \/ \E t \in Tasks : T4AfterSpawn(t)
  \/ \E t \in Tasks, outcome \in outcomes : T4ProbeDone(t, outcome)
  \/ \E t \in Tasks : CtlResolveDone(t)
  \/ \E t \in Tasks : TaskReturn(t)

PollerStep(ids) ==
  \/ \E id \in ids : HPStart(id)
  \/ \E id \in ids : HPStop(id)
  \/ HPStopAll
  \/ HPDispose
  \/ \E id \in ids : HPTick(id)
  \/ \E id \in ids, kind \in {"fresh", "stale"}, outcome \in ProbeOutcomes :
       HPProbeDone(id, kind, outcome)

PortManagerStep ==
  \/ \E port \in InputPorts : PMReserve(port)
  \/ PMReserveFraction(MIN_PORT)
  \/ \E key \in PMKeys : PMAssignFraction(key, MIN_PORT)
  \/ \E port \in InputPorts : PMRelease(port)
  \/ \E key \in PMKeys, port \in {None} \cup {Some(q) : q \in InputPorts} : PMAssign(key, port)
  \/ \E key \in PMKeys : PMReleaseTerminal(key)
  \/ PMGetAvailable
  \/ PMClear

Config(wired, withController, withResolver, os, folder, n, events, lim) ==
  /\ pmWired = wired
  /\ resolverHasController = withController
  /\ controllerHasResolver = withResolver
  /\ platform = os
  /\ workspaceFolder = folder
  /\ slots = n
  /\ recordEvents = events
  /\ limited = lim

\* the controller and the resolver over two instances sharing one store and one
\* PortManager
Init ==
  /\ InitState
  /\ Config(TRUE, TRUE, TRUE, "linux", None, 1, FALSE, TRUE)

Next ==
  \/ ControllerStep(Ids, OptPorts, InputPorts)
  \/ ResolveCall(Ids)
  \/ ResolveStep({Some(<<>>), Some(<<CHOOSE c \in Candidates : c.workspacePath = None>>)},
                 {"healthy", "unhealthy"})

Spec == Init /\ [][Next]_vars

\* the PortManager alone, not wired to a store
InitPM ==
  /\ InitState
  /\ Config(FALSE, FALSE, FALSE, "linux", None, 1, FALSE, FALSE)

NextPM == PortManagerStep

SpecPM == InitPM /\ [][NextPM]_vars

\* resolve calls on one instance, with and without a controller, while the
\* controller kills the same instance
InitResolve ==
  /\ InitState
  /\ \E withController \in BOOLEAN :
       Config(TRUE, withController, TRUE, "linux", Some(PathW), 1, FALSE, FALSE)

NextResolve ==
  \/ ResolveCall({"a"})
  \/ ResolveStep(DiscoveryResults, ProbeOutcomes)
  \/ \E ws \in {None, Some(PathX)}, pref \in OptPorts : Hydrate("a", ws, pref)
  \/ CtlKill("a")

SpecResolve == InitResolve /\ [][NextResolve]_vars

\* the HealthPoller on one instance that the controller connects, disconnects
\* and kills and that is removed from the store
InitPoller ==
  /\ InitState
  /\ Config(TRUE, FALSE, FALSE, "linux", None, 1, FALSE, FALSE)

NextPoller ==
  \/ PollerStep({"a"})
  \/ \E port \in PoolPorts : CtlConnect("a", port)
  \/ CtlDisconnect("a")
  \/ CtlKill("a")
  \/ StoreRemove("a")

SpecPoller == InitPoller /\ [][NextPoller]_vars

\* the controller alone over two instances, with and without the store wired
\* into the PortManager, the store recording its events
InitCtl ==
  /\ InitState
  /\ \E wired \in BOOLEAN :
       Config(wired, FALSE, FALSE, "linux", None, 1, TRUE, TRUE)

NextCtl ==
  ControllerStep(Ids, {None, Some(MIN_PORT)}, {MIN_PORT - 1, MIN_PORT, MIN_PORT + 1})

SpecCtl == InitCtl /\ [][NextCtl]_vars

\* InstanceController.resolve on one instance, with and without a resolver,
\* while the instance is connected, killed and removed
InitCtlResolve ==
  /\ InitState
  /\ \E withResolver \in BOOLEAN :
       Config(TRUE, TRUE, withResolver, "linux", None, 1, TRUE, TRUE)

NextCtlResolve ==
  \/ \E t \in Tasks : CtlResolveStart(t, "a")
  \/ ResolveStep({None, Some(<<>>), Some(<<CHOOSE c \in Candidates : c.workspacePath = None>>)},
                 ProbeOutcomes)
  \/ \E pref \in OptPorts : Hydrate("a", None, pref)
  \/ \E port \in PoolPorts : CtlConnect("a", port)
  \/ CtlKill("a")
  \/ StoreRemove("a")

SpecCtlResolve == InitCtlResolve /\ [][NextCtlResolve]_vars

\* the controller, the resolver and the HealthPoller on one instance, the store
\* recording its events
InitLifecycle ==
  /\ InitState
  /\ Config(TRUE, TRUE, TRUE, "linux", None, 1, TRUE, TRUE)

NextLifecycle ==
  \/ CtlConnect("a", MIN_PORT)
  \/ CtlDisconnect("a")
  \/ CtlKill("a")
  \/ \E t \in Tasks : CtlResolveStart(t, "a")
  \/ ResolveStep({Some(<<CHOOSE c \in Candidates : c.workspacePath = None>>)},
                 {"healthy", "unhealthy"})
  \/ HPStart("a")
  \/ HPStop("a")
  \/ HPTick("a")
  \/ \E kind \in {"fresh", "stale"}, outcome \in {"healthy", "unhealthy"} :
       HPProbeDone("a", kind, outcome)

SpecLifecycle == InitLifecycle /\ [][NextLifecycle]_vars

\* the InstanceStore alone, recording its events
InitStore ==
  /\ InitState
  /\ Config(FALSE, FALSE, FALSE, "linux", None, 1, TRUE, FALSE)

NextStore ==
  \/ \E id \in AllIds, state \in {"disconnected", "connected"} : StoreUpsert(id, state)
  \/ \E id \in AllIds : StoreRemove(id)
  \/ \E id \in AllIds : StoreSetActive(id)

SpecStore == InitStore /\ [][NextStore]_vars

\* the InstanceStore and the holders of the record objects it was passed and has
\* handed out
InitIsolation ==
  /\ InitState
  /\ Config(FALSE, FALSE, FALSE, "linux", None, 1, FALSE, FALSE)

NextIsolation ==
  \/ \E id \in Ids, full \in BOOLEAN : MemUpsertNew(id, full)
  \/ \E a \in mem.held : MemUpsertHeld(a)
  \/ \E id \in Ids : MemGetStep(id)
  \/ MemGetAllStep
  \/ \E a \in mem.held, part \in MutableParts : MemMutate(a, part)

SpecIsolation == InitIsolation /\ [][NextIsolation]_vars

\* a PortManager wired to the store that has reserved every port above the
\* pool, and one instance that is connected and killed
AbovePool == [EmptyPortManager EXCEPT !.usedPorts = (MIN_PORT + PortSpan)..MAX_PORT]

InitExhaust ==
  /\ pm = AbovePool
  /\ InitOthers
  /\ pathCall = NoPathCall
  /\ Config(TRUE, FALSE, FALSE, "linux", None, 1, FALSE, FALSE)

NextExhaust ==
  \/ \E port \in InputPorts : PMReserve(port)
  \/ \E port \in PoolPorts : PMRelease(port)
  \/ \E port \in {None} \cup {Some(q) : q \in PoolPorts} : PMAssign("t1", port)
  \/ PMReleaseTerminal("t1")
  \/ PMGetAvailable
  \/ CtlConnect("a", MIN_PORT)
  \/ CtlKill("a")

SpecExhaust == InitExhaust /\ [][NextExhaust]_vars

\* resolve calls on one instance without a controller, with and without a
\* workspace folder, the discovery returning up to two candidates
InitDiscovery ==
  /\ InitState
  /\ \E folder \in {None, Some(PathW)} :
       Config(TRUE, FALSE, TRUE, "linux", folder, 1, FALSE, FALSE)

NextDiscovery ==
  \/ \E t \in Tasks : ResolveStart(t, "a")
  \/ \E t \in Tasks, outcome \in {"healthy", "unhealthy"} : T2ProbeDone(t, outcome)
  \/ \E t \in Tasks, discovered \in DiscoveryResults : T3ScanDone(t, discovered)
  \/ \E t \in Tasks, outcome \in ProbeOutcomes : T3ProbeDone(t, outcome)
  \/ \E t \in Tasks : T4Start(t)
  \/ \E t \in Tasks : TaskReturn(t)
  \/ \E ws \in {None, Some(PathX)}, pref \in {None, Some(MIN_PORT)} : Hydrate("a", ws, pref)
  \/ StoreRemove("a")

SpecDiscovery == InitDiscovery /\ [][NextDiscovery]_vars

\* the HealthPoller started and stopped on two instances whose records any user
\* of the store writes, in states that are polled and in states that are skipped
InitTimers ==
  /\ InitState
  /\ Config(TRUE, FALSE, FALSE, "linux", None, 1, FALSE, FALSE)

NextTimers ==
  \/ \E id \in Ids : HPStart(id)
  \/ \E id \in Ids : HPStop(id)
  \/ HPStopAll
  \/ HPDispose
  \/ \E id \in Ids, state \in {"connected", "error", "spawning", "stopping"} :
       StoreUpsert(id, state)
  \/ \E id \in Ids : StoreRemove(id)

SpecTimers == InitTimers /\ [][NextTimers]_vars

\* one OpenCodeApiClient with a retry budget of 0..MaxRetries running one request
\* whose fetch calls settle in every way
InitApi ==
  /\ InitState
  /\ Config(TRUE, FALSE, FALSE, "linux", None, 1, FALSE, FALSE)

NextApi ==
  \/ \E op \in ApiOps, maxRetries \in 0..MaxRetries,
        baseDelay \in {TEST_BASE_DELAY, DEFAULT_BASE_DELAY} : ApiCall(op, maxRetries, baseDelay)
  \/ \E outcome \in FetchOutcomes : ApiFetchDone(outcome)
  \/ ApiSleepDone

SpecApi == InitApi /\ [][NextApi]_vars

\* pathsMatch called once on every pair of paths of at most MaxPathLen characters,
\* on a platform that keeps case and on one that folds it
InitPaths ==
  /\ pm = EmptyPortManager
  /\ InitOthers
  /\ \E os \in {"linux", "win32"} : Config(TRUE, FALSE, FALSE, os, None, 1, FALSE, FALSE)
  /\ \E a, b \in PathInputs : pathCall = [path1 |-> a, path2 |-> b, result |-> None]

NextPaths == PathsMatchCall

SpecPaths == InitPaths /\ [][NextPaths]_vars

\* the timer of one instance firing while users of the store write its record
\* with and without a port and with and without health fields, and remove it
InitTick ==
  /\ InitState
  /\ Config(TRUE, FALSE, FALSE, "linux", None, 1, FALSE, FALSE)

NextTick ==
  \/ HPStart("a")
  \/ HPStop("a")
  \/ HPTick("a")
  \/ HPTickSkipped("a")
  \/ \E kind \in {"fresh", "stale"}, outcome \in {"healthy", "unhealthy"} :
       HPProbeDone("a", kind, outcome)
  \/ \E port \in {None, Some(0), Some(MIN_PORT)}, state \in {"connected", "disconnected"},
        health \in {None, Some([ok |-> TRUE, version |-> Some("1.2.3")])} :
       StoreUpsertFull("a", port, state, health)
  \/ StoreRemove("a")

SpecTick == InitTick /\ [][NextTick]_vars

\* every operation of an InstanceController that has no resolver, on two
\* instances
InitCtlAlone ==
  /\ InitState
  /\ \E wired \in BOOLEAN :
       Config(wired, FALSE, FALSE, "linux", None, 1, FALSE, TRUE)

NextCtlAlone ==
  \/ ControllerStep(Ids, {None, Some(MIN_PORT)}, {MIN_PORT, MIN_PORT + 1})
  \/ \E t \in Tasks, id \in Ids : CtlResolveStart(t, id)
  \/ \E t \in Tasks : TaskReturn(t)

SpecCtlAlone == InitCtlAlone /\ [][NextCtlAlone]_vars

----
\* Claims

\* C1: under any interleaving of InstanceController operations and
\* ConnectionResolver.resolve calls over several instance ids sharing one store and
\* one PortManager, no two distinct records are both in state connected with the
\* same runtime.port.
C1_NoSharedConnectedPort ==
  \A i, j \in Ids :
    (i # j /\ Has(store, i) /\ Has(store, j)) =>
      ~ /\ Val(Get(store, i)).state = "connected"
        /\ Val(Get(store, j)).state = "connected"
        /\ IsSome(Val(Get(store, i)).runtime.port)
        /\ Val(Get(store, i)).runtime.port = Val(Get(store, j)).runtime.port

\* C2: in every state reachable by reservePort, releasePort, assignPortToTerminal,
\* releaseTerminalPorts, getAvailablePort and clear, for terminal keys of any string
\* value (the empty string included), terminalPortMap and portTerminalMap are
\* inverse of each other and no two keys are mapped to the same port.
C2_MapsAreInverse ==
  /\ \A k \in DOMAIN pm.terminalPortMap :
       /\ pm.terminalPortMap[k] \in DOMAIN pm.portTerminalMap
       /\ pm.portTerminalMap[pm.terminalPortMap[k]] = k
  /\ \A q \in DOMAIN pm.portTerminalMap :
       /\ pm.portTerminalMap[q] \in DOMAIN pm.terminalPortMap
       /\ pm.terminalPortMap[pm.portTerminalMap[q]] = q
  /\ \A k1, k2 \in DOMAIN pm.terminalPortMap :
       k1 # k2 => pm.terminalPortMap[k1] # pm.terminalPortMap[k2]


\* C3: when a controller operation or another call runs while
\* ConnectionResolver.resolve(id) is suspended, the record that resolve writes on
\* success still contains every update made during the suspension: the fields
\* that resolve does not set itself (health, terminalKey, workspaceUri, and pid
\* unless the port came from discovery) keep the values they have in the store
\* when resolve writes.
ResolveWrites(t) ==
  /\ tasks[t].pc \in {"t2probe", "t3probe", "t4probe"}
  /\ tasks'[t].pc = "ret"
  /\ IsSome(tasks'[t].result)
  /\ Has(store, tasks[t].id)
  /\ Has(store', tasks[t].id)

ResolveWriteKeepsUpdates(t) ==
  LET before == Val(Get(store, tasks[t].id))
      after == Val(Get(store', tasks[t].id))
  IN /\ after.health = before.health
     /\ after.runtime.terminalKey = before.runtime.terminalKey
     /\ after.config.workspaceUri = before.config.workspaceUri
     /\ tasks[t].pc # "t3probe" => after.runtime.pid = before.runtime.pid

C3_ResolveKeepsUpdates ==
  [][\A t \in Tasks : ResolveWrites(t) => ResolveWriteKeepsUpdates(t)]_vars

\* the stored port of a record: runtime.port, else config.preferredPort
StoredPortOf(record) ==
  IF ~IsSome(record) THEN None
  ELSE IF IsSome(Val(record).runtime.port) THEN Val(record).runtime.port
  ELSE Val(record).config.preferredPort

CallsOf(t, call) == {k \in 1..Len(tasks[t].calls) : tasks[t].calls[k].call = call}

Returned(t) == tasks[t].pc \in {"ret", "ctlret"}

\* C4: if the instance has a stored port (runtime.port, else config.preferredPort)
\* the first thing resolve does is to probe it, and if that probe succeeds
\* resolve returns that port and invokes neither the discovery collaborator nor
\* controller.spawn during the call.
C4_Tier2ShortCircuit ==
  \A t \in Tasks :
    (tasks[t].pc # "idle" /\ IsSome(StoredPortOf(tasks[t].record))) =>
      /\ tasks[t].calls[1] = Log("health", StoredPortOf(tasks[t].record))
      /\ (Len(tasks[t].calls) >= 2 /\ tasks[t].calls[2].call = "healthy") =>
           /\ tasks[t].pc \in {"ret", "ctlret"}
           /\ tasks[t].result = StoredPortOf(tasks[t].record)
           /\ ~tasks[t].threw
           /\ CallsOf(t, "discover") = {}
           /\ CallsOf(t, "spawn") = {}

C4_Witness ==
  \E t \in Tasks :
    /\ tasks[t].pc = "ret"
    /\ IsSome(StoredPortOf(tasks[t].record))
    /\ ~IsSome(Val(tasks[t].record).runtime.port)
    /\ tasks[t].calls = <<Log("health", StoredPortOf(tasks[t].record)), Log("healthy", None)>>
    /\ tasks[t].result = StoredPortOf(tasks[t].record)


ProbedHealthy(t, port) ==
  \E k \in 1..(Len(tasks[t].calls) - 1) :
    /\ tasks[t].calls[k] = Log("health", Some(port))
    /\ tasks[t].calls[k + 1].call = "healthy"

FromDiscovery(t) == CallsOf(t, "spawn") = {} /\ CallsOf(t, "discover") # {}

\* C5: if ConnectionResolver.resolve(id) returns a port p, a health probe of p
\* succeeded during that call, and, when id is in the store and no other operation
\* on id interleaved, on return the record has state connected, error cleared,
\* runtime.port = p, lastSeenAt set, and runtime.pid set to the candidate's pid
\* when p came from discovery.
C5_ReturnedPortIsVerifiedAndRecorded ==
  \A t \in Tasks :
    (tasks[t].pc = "ret" /\ IsSome(tasks[t].result)) =>
      /\ ProbedHealthy(t, Val(tasks[t].result))
      /\ (Has(store, tasks[t].id) /\ ~tasks[t].touched) =>
           LET record == Val(Get(store, tasks[t].id))
           IN /\ record.state = "connected"
              /\ record.error = None
              /\ record.runtime.port = tasks[t].result
              /\ IsSome(record.runtime.lastSeenAt)
              /\ FromDiscovery(t) =>
                   IsSome(tasks[t].pid) /\ record.runtime.pid = tasks[t].pid

C5_Witness ==
  \E t \in Tasks :
    /\ tasks[t].pc = "ret"
    /\ IsSome(tasks[t].result)
    /\ ~tasks[t].touched
    /\ FromDiscovery(t)
    /\ Has(store, tasks[t].id)
    /\ Val(Get(store, tasks[t].id)).runtime.pid = tasks[t].pid
    /\ Val(Get(store, tasks[t].id)).runtime.port = tasks[t].result

\* C6: within one ConnectionResolver.resolve call the tiers run in a fixed order:
\* the stored port is health-probed first, and only if one exists; the discovery
\* collaborator is invoked at most once, and only when there was no stored port or
\* its probe failed; controller.spawn is invoked at most once, only after
\* discovery and before any probe succeeded, and never when no controller is
\* configured, in which case resolve returns undefined.
C6_TierOrder ==
  \A t \in Tasks :
    tasks[t].calls # <<>> =>
      LET c == tasks[t].calls
          sp == StoredPortOf(tasks[t].record)
      IN /\ IsSome(sp) => c[1] = Log("health", sp)
         /\ ~IsSome(sp) => c[1].call = "discover"
         /\ Cardinality(CallsOf(t, "discover")) <= 1
         /\ \A k \in CallsOf(t, "discover") :
              \/ k = 1
              \/ k = 3 /\ c[1].call = "health" /\ c[2].call \in {"unhealthy", "throw"}
         /\ Cardinality(CallsOf(t, "spawn")) <= 1
         /\ \A k \in CallsOf(t, "spawn") :
              /\ resolverHasController
              /\ \E d \in CallsOf(t, "discover") : d < k
              /\ \A j \in 1..k : c[j].call # "healthy"
         /\ Cardinality(CallsOf(t, "health")) <= 3
         /\ (~resolverHasController /\ Returned(t) /\ CallsOf(t, "healthy") = {}) =>
              tasks[t].result = None

C6_Witness ==
  \E t \in Tasks :
    /\ tasks[t].pc = "ret"
    /\ resolverHasController
    /\ Cardinality(CallsOf(t, "health")) = 3
    /\ CallsOf(t, "discover") = {3}
    /\ CallsOf(t, "spawn") # {}
    /\ IsSome(tasks[t].result)

\* the next tier runs after the failure logged at index k: controller.spawn is
\* called, or no controller is configured and resolve returns undefined
Tier4Follows(t, k) ==
  \/ Len(tasks[t].calls) > k /\ tasks[t].calls[k + 1].call = "spawn"
  \/ /\ Len(tasks[t].calls) = k
     /\ \/ tasks[t].pc = "t4start"
        \/ ~resolverHasController /\ Returned(t) /\ tasks[t].result = None

\* C7: ConnectionResolver.resolve never throws: whenever a health probe, the
\* discovery scan or controller.spawn throws or rejects, that tier counts as
\* failed, the next tier runs, and the call completes with a port or undefined.
C7_ResolveNeverThrows ==
  \A t \in Tasks :
    /\ ~tasks[t].threw
    /\ \A k \in 2..Len(tasks[t].calls) :
         LET c == tasks[t].calls
             spawned == \E j \in CallsOf(t, "spawn") : j < k
         IN /\ (c[k].call = "throw" /\ k = 2) =>
                 Len(c) >= 3 /\ c[3].call = "discover"
            /\ (c[k].call = "throw" /\ k > 2 /\ ~spawned) => Tier4Follows(t, k)
            /\ (c[k].call = "rejected" /\ c[k - 1].call = "discover") => Tier4Follows(t, k)
            /\ (c[k].call \in {"throw", "rejected"} /\ spawned) =>
                 Returned(t) /\ tasks[t].result = None /\ Len(c) = k

C7_Witness ==
  \E t \in Tasks :
    /\ tasks[t].pc = "ret"
    /\ tasks[t].calls[2].call = "throw"
    /\ \E k \in CallsOf(t, "rejected") : tasks[t].calls[k - 1].call = "discover"
    /\ CallsOf(t, "spawn") # {}
    /\ IsSome(tasks[t].result)


\* a probe of id completes in this step
ProbeDoneStep(id) ==
  probes'[id].fresh + probes'[id].stale < probes[id].fresh + probes[id].stale

\* the step moves the record of id into state error
SetsError(id) ==
  /\ Has(store', id)
  /\ Val(Get(store', id)).state = "error"
  /\ ~Has(store, id) \/ Val(Get(store, id)).state # "error"

StateIs(s, id, state) == Has(s, id) /\ Val(Get(s, id)).state = state

\* C8: a HealthPoller probe completion changes the state of an instance to error
\* if and only if the probe failed, the state at that moment is connected, and the
\* failure is at least the 3rd consecutive one counted for the id since its last
\* success or stop; the message is then "Health check failed 3 consecutive times";
\* an instance in another state than connected is never moved to error.
C8_ErrorIffThirdFailure ==
  [][\A id \in Ids :
       ProbeDoneStep(id) =>
         /\ SetsError(id) <=>
              /\ hist'[id].last = "failed"
              /\ StateIs(store, id, "connected")
              /\ hist'[id].failures = hist[id].failures + 1
              /\ hist'[id].failures >= FAILURE_THRESHOLD
         /\ SetsError(id) => Val(Get(store', id)).error = Some(HealthFailedMessage)]_vars

\* C9: a successful HealthPoller probe resets the failure counter of the id to
\* zero, moves the instance to connected with error cleared iff its state was
\* error, and leaves state and error of an instance in another state unchanged.
C9_SuccessResets ==
  [][\A id \in Ids :
       (ProbeDoneStep(id) /\ hist'[id].last = "healthy") =>
         /\ FailureCount(failureCounts', id) = 0
         /\ Has(store, id) =>
              /\ Has(store', id)
              /\ LET before == Val(Get(store, id))
                     after == Val(Get(store', id))
                 IN IF before.state = "error"
                    THEN after.state = "connected" /\ after.error = None
                    ELSE after.state = before.state /\ after.error = before.error]_vars

\* C10: after stop(id), stopAll() or dispose() has returned, a probe of id that
\* was in flight does not write to the InstanceStore when it completes, and the
\* failure counter of id stays absent or zero.
C10_StaleProbeWritesNothing ==
  [][\A id \in Ids :
       probes'[id].stale < probes[id].stale =>
         /\ store' = store
         /\ FailureCount(failureCounts', id) = 0]_vars


\* the "change" events emitted by the store since the start of the last call
Changes(s) == SelectSeq(s.emitted, LAMBDA e : e.event = "change")

\* the record of id among records, or None
RecordOf(records, id) ==
  IF \E k \in 1..Len(records) : records[k].config.id = id
  THEN Some(records[CHOOSE k \in 1..Len(records) : records[k].config.id = id])
  ELSE None

\* the successive values of the record of id that listeners saw during the last
\* call; when the call had to create the record, without the created record
Written(before, after, id) ==
  LET all == [k \in 1..Len(Changes(after)) |-> RecordOf(Changes(after)[k].arg, id)]
  IN IF Has(before, id) THEN all ELSE SubSeq(all, 2, Len(all))

\* the port the PortManager holds for a terminal key
HeldPort(p, key) == MapGet(p.terminalPortMap, key)

\* C11: InstanceController.spawn(id) first writes state spawning, then either
\* writes state connected with error cleared and runtime.port equal to the port
\* the PortManager holds for the instance's terminal key, or, when the port
\* assignment or the process creation fails, writes state error with the failure
\* message and rethrows; it never returns leaving the record in spawning.
C11_SpawnWrites ==
  \A id \in Ids, optPort \in OptPorts :
    \A o \in spawn(Fresh(store), pm, terminals, id, optPort) :
      LET w == Written(store, o.store, id)
          last == Val(Get(o.store, id))
      IN /\ Len(w) = 2
         /\ Val(w[1]).state = "spawning"
         /\ w[2] = Some(last)
         /\ last.state # "spawning"
         /\ IF o.err = None
            THEN /\ last.state = "connected"
                 /\ last.error = None
                 /\ IsSome(last.runtime.port)
                 /\ last.runtime.port = HeldPort(o.pm, getTerminalKey(id, last))
            ELSE /\ last.state = "error"
                 /\ last.error = o.err

C11_Witness ==
  \E id \in Ids :
    /\ Len(Changes(store)) = 2
    /\ Has(store, id)
    /\ Val(RecordOf(Changes(store)[1].arg, id)).state = "spawning"
    /\ Val(Get(store, id)).state = "connected"
    /\ IsSome(Val(Get(store, id)).runtime.port)
    /\ Val(Get(store, id)).runtime.port = HeldPort(pm, getTerminalKey(id, Val(Get(store, id))))


\* C12: InstanceController.kill(id) writes state stopping and then, on success,
\* state disconnected with pid cleared; afterwards the PortManager holds no port
\* for the instance's terminal key and the port that was assigned to the instance
\* is available again according to isPortAvailable, with or without the store
\* wired into the PortManager, while every other instance keeps its state and
\* port; if terminating the process fails, the record ends in state error with
\* the message and the failure is rethrown.
C12_KillReleases ==
  \A id \in Ids :
    \A o \in kill(Fresh(store), pm, terminals, id) :
      LET w == Written(store, o.store, id)
          last == Val(Get(o.store, id))
          terminalKey == getTerminalKey(id, last)
          assigned == HeldPort(pm, terminalKey)
      IN /\ Len(w) = 2
         /\ Val(w[1]).state = "stopping"
         /\ w[2] = Some(last)
         /\ \A other \in Ids \ {id} : Get(o.store, other) = Get(store, other)
         /\ IF o.err = None
            THEN /\ last.state = "disconnected"
                 /\ last.runtime.pid = None
                 /\ HeldPort(o.pm, terminalKey) = None
                 /\ IsSome(assigned) => isPortAvailable(o.pm, o.store, Val(assigned))
            ELSE /\ last.state = "error"
                 /\ last.error = o.err


\* C13: InstanceController.connect(id, port) writes state connecting and then,
\* if it returns normally, the record is in state connected with runtime.port
\* equal to the given port; if the port is out of range or held by another
\* terminal key, the record ends in state error with the message and the failure
\* is rethrown.
C13_ConnectRecordsGivenPort ==
  \A id \in Ids, port \in InputPorts :
    \A o \in connect(Fresh(store), pm, terminals, id, port) :
      LET w == Written(store, o.store, id)
          last == Val(Get(o.store, id))
          terminalKey == getTerminalKey(id, last)
          holder == MapGet(pm.portTerminalMap, port)
      IN /\ Len(w) = 2
         /\ Val(w[1]).state = "connecting"
         /\ w[2] = Some(last)
         /\ o.err = None =>
              last.state = "connected" /\ last.runtime.port = Some(port)
         /\ o.err # None =>
              last.state = "error" /\ last.error = o.err
         /\ (~isValidPort(port) \/ (IsSome(holder) /\ Val(holder) # terminalKey)) =>
              o.err # None


\* task t enters InstanceController.resolve in this step
CtlResolveBegins(t) ==
  tasks[t].pc = "idle" /\ tasks'[t].pc # "idle" /\ tasks'[t].caller = "ctl"

\* task t leaves InstanceController.resolve in this step, after the resolver
CtlResolveEnds(t) ==
  tasks[t].pc = "ret" /\ tasks[t].caller = "ctl" /\ tasks'[t].pc = "ctlret"

\* C14: InstanceController.resolve(id) for a known id writes state resolving
\* and never throws; with a resolver it returns the resolver's port and leaves
\* the record connected with runtime.port = that port, or returns undefined and
\* leaves the record in state error with a message; without a resolver it
\* returns the stored runtime.port and leaves the record connected if that port
\* is defined and disconnected otherwise; for an unknown id it returns undefined
\* and does not modify the store.
C14_ControllerResolve ==
  [][\A t \in Tasks :
       /\ CtlResolveBegins(t) =>
            LET id == tasks'[t].id
            IN IF ~Has(store, id)
               THEN /\ store' = store
                    /\ tasks'[t].pc = "ctlret"
                    /\ tasks'[t].result = None
               ELSE /\ Len(Changes(store')) >= 1
                    /\ Val(RecordOf(Changes(store')[1].arg, id)).state = "resolving"
                    /\ IF controllerHasResolver
                       THEN Val(Get(store', id)).state = "resolving"
                       ELSE LET port == Val(Get(store, id)).runtime.port
                            IN /\ tasks'[t].pc = "ctlret"
                               /\ tasks'[t].result = port
                               /\ Val(Get(store', id)).runtime.port = port
                               /\ Val(Get(store', id)).state =
                                    IF IsSome(port) THEN "connected" ELSE "disconnected"
       /\ CtlResolveEnds(t) =>
            LET id == tasks[t].id
                record == Val(Get(store', id))
            IN /\ ~tasks'[t].threw
               /\ tasks'[t].result = tasks[t].result
               /\ Has(store', id)
               /\ IF IsSome(tasks[t].result)
                  THEN record.state = "connected" /\ record.runtime.port = tasks[t].result
                  ELSE record.state = "error" /\ IsSome(record.error)]_vars

C14_Witness ==
  \E t \in Tasks :
    /\ tasks[t].pc = "ctlret"
    /\ controllerHasResolver
    /\ tasks[t].calls # <<>>
    /\ IsSome(tasks[t].result)
    /\ Has(store, tasks[t].id)
    /\ Val(Get(store, tasks[t].id)).state = "connected"
    /\ Val(Get(store, tasks[t].id)).runtime.port = tasks[t].result
    /\ Len(Changes(store)) = 1


\* C15: InstanceController.dispose() never throws, also when terminating one of
\* the processes fails, and after it returns every record in the store is in
\* state disconnected with pid cleared and the PortManager holds no port for any
\* of their terminal keys.
C15_DisposeNeverThrows ==
  \A o \in dispose(Fresh(store), pm, terminals) :
    /\ o.err = None
    /\ \A id \in Ids :
         Has(o.store, id) =>
           LET record == Val(Get(o.store, id))
           IN /\ record.state = "disconnected"
              /\ record.runtime.pid = None
              /\ HeldPort(o.pm, getTerminalKey(id, record)) = None


\* the declared state machine
DeclaredEdges ==
  {<<"disconnected", "resolving">>, <<"resolving", "spawning">>,
   <<"resolving", "connecting">>, <<"spawning", "connected">>,
   <<"connecting", "connected">>, <<"connected", "error">>,
   <<"error", "connected">>, <<"error", "disconnected">>,
   <<"stopping", "disconnected">>}
  \cup {<<from, "stopping">> : from \in States}
  \cup {<<from, "error">> : from \in {"resolving", "spawning", "connecting", "stopping"}}

\* the successive states of the record of id that listeners saw during the
\* last call, from the state it had before the call
StatesSeen(id) ==
  LET seen == Changes(store')
      states == [k \in 1..Len(seen) |->
                   IF IsSome(RecordOf(seen[k].arg, id))
                   THEN Val(RecordOf(seen[k].arg, id)).state ELSE "none"]
  IN <<IF Has(store, id) THEN Val(Get(store, id)).state ELSE "none">> \o states

\* C16: every change of a record's state made by InstanceController,
\* ConnectionResolver or HealthPoller follows an edge of the declared state
\* machine.
C16_DeclaredEdgesOnly ==
  [][\A id \in Ids :
       store' # store =>
         \A k \in 1..(Len(StatesSeen(id)) - 1) :
           LET from == StatesSeen(id)[k]
               to == StatesSeen(id)[k + 1]
           IN (from # "none" /\ to # "none" /\ from # to) =>
                <<from, to>> \in DeclaredEdges]_vars

\* every record the store holds or has shown to its listeners in the last call
RecordsShown ==
  {Val(Get(store, id)) : id \in {i \in Ids : Has(store, i)}}
  \cup UNION {{c.arg[k] : k \in 1..Len(c.arg)} :
              c \in {Changes(store)[j] : j \in 1..Len(Changes(store))}}

\* C17: in every state reachable through InstanceController, ConnectionResolver
\* and HealthPoller operations, starting from records without an error, a record
\* is in state error if and only if its error field holds a message.
C17_ErrorIffMessage ==
  \A record \in RecordsShown : (record.state = "error") <=> IsSome(record.error)

C17_Witness ==
  /\ Has(store, "a")
  /\ Val(Get(store, "a")).state = "error"
  /\ Val(Get(store, "a")).error = Some(HealthFailedMessage)
  /\ Len(Changes(store)) = 1


\* C18: after any sequence of upsert, remove and setActive on an InstanceStore:
\* if the store is non-empty, exactly one id is active, it is the id of a record
\* in the store and getActive() returns that record; if the store is empty
\* there is no active id and getActive() fails.
C18_ActiveIsValid ==
  IF \E id \in AllIds : Has(store, id)
  THEN /\ IsSome(store.active)
       /\ Has(store, Val(store.active))
       /\ getActive(store) = Get(store, Val(store.active))
  ELSE /\ store.active = None
       /\ getActive(store) = None

C18_Witness ==
  /\ Len(store.emitted) >= 2
  /\ store.emitted[1].event = "remove"
  /\ IsSome(store.active)
  /\ Has(store, Val(store.active))
  /\ store.emitted[1].arg # Val(store.active)
  /\ Len(store.order) = 2


\* the names of the events emitted since the start of the last call
EventNames(s) == [k \in 1..Len(s.emitted) |-> s.emitted[k].event]

\* C19: InstanceStore.remove(id) of the active id while other records remain
\* makes the earliest-inserted remaining id active and emits remove, then
\* setActive with the new id, then change, in that order; removing the last
\* record emits remove then change and leaves no active id; remove of an unknown
\* id returns false, emits nothing and changes nothing.
C19_RemoveEvents ==
  \A id \in AllIds :
    LET before == Fresh(store)
        after == Remove(before, id)
        rest == RemoveFromOrder(store.order, id)
    IN IF ~Has(store, id)
       THEN ~RemoveReturns(before, id) /\ after = before
       ELSE /\ RemoveReturns(before, id)
            /\ ~Has(after, id)
            /\ after.order = rest
            /\ after.emitted[1] = Event("remove", id)
            /\ (store.active = Some(id) /\ Len(rest) > 0) =>
                 /\ after.active = Some(rest[1])
                 /\ EventNames(after) = <<"remove", "setActive", "change">>
                 /\ after.emitted[2].arg = rest[1]
            /\ Len(rest) = 0 =>
                 /\ after.active = None
                 /\ EventNames(after) = <<"remove", "change">>


\* C20: InstanceStore.upsert of an id not yet in the store emits add then
\* change, preceded by setActive(id) exactly when the store had no active id;
\* upsert of an id already in the store emits exactly one change and neither add
\* nor setActive, and keeps the record's position in getAll() insertion order.
C20_UpsertEvents ==
  \A id \in AllIds, state \in {"disconnected", "connected"} :
    LET rec == [CreatedRecord(id) EXCEPT !.state = state]
        after == Upsert(Fresh(store), rec)
    IN IF Has(store, id)
       THEN /\ EventNames(after) = <<"change">>
            /\ after.order = store.order
            /\ after.active = store.active
            /\ \A k \in 1..Len(GetAll(store)) :
                 GetAll(after)[k].config.id = GetAll(store)[k].config.id
       ELSE /\ after.order = Append(store.order, id)
            /\ IF store.active = None
               THEN /\ EventNames(after) = <<"setActive", "add", "change">>
                    /\ after.emitted[1].arg = id
                    /\ after.emitted[2].arg = rec
                    /\ after.active = Some(id)
               ELSE /\ EventNames(after) = <<"add", "change">>
                    /\ after.emitted[1].arg = rec
                    /\ after.active = store.active

C20_Witness ==
  /\ EventNames(store) = <<"change">>
  /\ Len(store.order) = 3
  /\ Val(Get(store, store.order[1])).state = "connected"
  /\ store.active = Some(store.order[2])

\* C21: setActive(id) fails for an id that is not in the store, leaving the store
\* as it was and emitting nothing; for the id that is already active it emits
\* nothing; otherwise it makes id the active id and emits setActive(id) and then
\* change with the records of the store
C21_SetActive ==
  \A id \in AllIds :
    LET before == Fresh(store)
        o == setActive(before, id)
    IN IF ~Has(store, id)
       THEN /\ IsSome(o.err)
            /\ o.store = before
            /\ o.store.active = store.active
       ELSE /\ o.err = None
            /\ o.store.recs = store.recs
            /\ o.store.order = store.order
            /\ IF store.active = Some(id)
               THEN o.store = before
               ELSE /\ o.store.active = Some(id)
                    /\ EventNames(o.store) = <<"setActive", "change">>
                    /\ o.store.emitted[1].arg = id
                    /\ o.store.emitted[2].arg = GetAll(store)

\* a setActive call has just moved the active id to another known id, and a
\* setActive of an unknown id would fail in this state
C21_Witness ==
  /\ EventNames(store) = <<"setActive", "change">>
  /\ store.emitted[1].arg = "b"
  /\ store.active = Some("b")
  /\ Has(store, "a")
  /\ ~Has(store, "")

\* C22: whatever the holders of record objects assign to them (the record passed
\* to upsert, the records returned by get and getAll, the records handed to add
\* and change listeners: their config, args array, runtime, health or state),
\* get(id) returns a record whose value is the value the last record upserted for
\* id had when it was upserted, getAll() returns these values in order, and
\* ids never upserted are unknown
C22_StoreIsolated ==
  /\ \A id \in Ids :
       LET g == MemGet(mem, id)
       IN IF mem.last[id] = None THEN g.addr = None
          ELSE /\ IsSome(g.addr)
               /\ ValueOf(g.heap, Val(g.addr)) = Val(mem.last[id])
  /\ LET all == MemGetAll(mem)
     IN /\ Len(all.addrs) = Len(mem.order)
        /\ \A k \in 1..Len(all.addrs) :
             ValueOf(all.heap, all.addrs[k]) = Val(mem.last[mem.order[k]])

\* a held record object of a stored id has been assigned to: its value differs
\* from the value the store returns for its id
C22_Witness ==
  \E a \in mem.held :
    LET id == mem.heap[mem.heap[a].config].id
    IN /\ IsSome(mem.last[id])
       /\ ValueOf(mem.heap, a) # Val(mem.last[id])
       /\ IsSome(ValueOf(mem.heap, a).config.args)
       /\ Val(ValueOf(mem.heap, a).config.args) = <<"Mutated">>

\* the key holds a port: terminalPortMap has an entry for it
Holds(p, key) == key \in DOMAIN p.terminalPortMap

\* C23: while a key holds port A, assignPortToTerminal(key, B) and
\* assignPortToTerminal(key) return A and change nothing, for every B: free,
\* reserved, held by another key or out of range
C23_AssignIdempotent ==
  \A key \in PMKeys :
    Holds(pm, key) =>
      \A port \in {None} \cup {Some(q) : q \in InputPorts \cup {MAX_PORT + 1}} :
        assignPortToTerminal(pm, store, key, port)
          = {[pm |-> pm, ok |-> TRUE, val |-> Some(pm.terminalPortMap[key]), err |-> None]}

\* a key holding a port was assigned the port another key holds and got its own
\* port back
C23_Witness ==
  /\ pmResult.op = "assignPortToTerminal"
  /\ pmResult.key = Some("t1")
  /\ Holds(pm, "t1") /\ Holds(pm, "t2")
  /\ pmResult.req = Some(pm.terminalPortMap["t2"])
  /\ pmResult.val = Some(pm.terminalPortMap["t1"])
  /\ pm.terminalPortMap["t1"] # pm.terminalPortMap["t2"]

\* the step is a call of the PortManager with this name
PMCalled(op) ==
  /\ pmResult'.op = op
  /\ ~pmResult'.fraction
  /\ pmResult' # pmResult \/ pm' # pm

\* reservePort(q) succeeds, and assignPortToTerminal(key, q) gives q to every key
\* that holds no port
CanBeTaken(p, q) ==
  /\ reservePort(p, q).ok
  /\ \A key \in PMKeys :
       ~Holds(p, key) =>
         assignPortToTerminal(p, store, key, Some(q)) = {Ok(Assign(p, key, q), Some(q))}

C24_Step ==
  \A q \in PoolPorts :
    /\ (PMCalled("reservePort") /\ pmResult'.req = Some(q)) =>
         /\ (pmResult'.err = None) <=> (q \notin pm.usedPorts)
         /\ pmResult'.err # None => (pmResult'.err = Some("AlreadyInUse") /\ pm' = pm)
         /\ reservePort(pm', q).err = Some("AlreadyInUse")
    /\ (q \in pm.usedPorts
          /\ pmResult'.op \notin {"releasePort", "releaseTerminalPorts", "clear"}) =>
         q \in pm'.usedPorts
    /\ (PMCalled("releasePort") /\ pmResult'.req = Some(q)) => CanBeTaken(pm', q)
    /\ (PMCalled("releaseTerminalPorts")
          /\ MapGet(pm.terminalPortMap, Val(pmResult'.key)) = Some(q)) =>
         CanBeTaken(pm', q)

\* C24: reservePort(q) on a port of the range succeeds exactly when q is not
\* reserved, and a reserved port stays reserved until a release, so that of two
\* reservePort(q) calls with no release in between, whatever tasks issue them,
\* one succeeds and the other fails with AlreadyInUse; after releasePort(q) or
\* releaseTerminalPorts of the key holding q, reservePort(q) and
\* assignPortToTerminal(otherKey, q) succeed again
C24_ReserveIsAtomic == [][C24_Step]_vars

\* the second of two reservePort calls on the same port has failed
C24_Witness ==
  /\ pmResult.op = "reservePort"
  /\ pmResult.req = Some(MIN_PORT)
  /\ pmResult.err = Some("AlreadyInUse")
  /\ pm.usedPorts = {MIN_PORT}
  /\ pm.portTerminalMap = EmptyMap

\* C25: every port getAvailablePort() returns is available at that moment: it is
\* in the range, not locally reserved and, when the PortManager is wired to the
\* store, not the runtime.port of a record; on the random probes and on the
\* sequential scan
C25_ReturnedPortIsAvailable ==
  \A d \in Draws(pm, store) :
    IsSome(d.val) =>
      /\ isPortAvailable(pm, store, Val(d.val))
      /\ isValidPort(Val(d.val))
      /\ Val(d.val) \notin pm.usedPorts
      /\ pmWired =>
           \A id \in AllIds : Has(store, id) =>
             Val(Get(store, id)).runtime.port # d.val

\* the call failed and left the reserved set and both maps as they were
FailsWith(r, p, err) == r.err = Some(err) /\ r.pm = p

\* C26: reservePort(port) fails with OutOfRange when port is not an integer of
\* [16384, 65535] and with AlreadyInUse when port is reserved;
\* assignPortToTerminal(key, port) for a key holding no port fails in the same
\* two cases; every failing call, assignPortToTerminal(key) with no port left
\* included, leaves the reserved set and both maps as they were
C26_FailingCallsChangeNothing ==
  /\ \A port \in InputPorts \cup {MAX_PORT, MAX_PORT + 1} :
       LET outOfRange == port < MIN_PORT \/ port > MAX_PORT
           r == reservePort(pm, port)
       IN /\ outOfRange => FailsWith(r, pm, "OutOfRange")
          /\ (~outOfRange /\ port \in pm.usedPorts) => FailsWith(r, pm, "AlreadyInUse")
          /\ (~outOfRange /\ port \notin pm.usedPorts) => r.ok
          /\ FailsWith(reservePortFraction(pm, port), pm, "OutOfRange")
          /\ \A key \in PMKeys :
               ~Holds(pm, key) =>
                 /\ FailsWith(assignFractionToTerminal(pm, key, port), pm, "OutOfRange")
                 /\ \A a \in assignPortToTerminal(pm, store, key, Some(port)) :
                      /\ outOfRange => FailsWith(a, pm, "OutOfRange")
                      /\ (~outOfRange /\ port \in pm.usedPorts) =>
                           FailsWith(a, pm, "AlreadyInUse")
                      /\ (~outOfRange /\ port \notin pm.usedPorts) => a.ok
  /\ \A key \in PMKeys :
       \A a \in assignPortToTerminal(pm, store, key, None) : ~a.ok => a.pm = pm

\* assignPortToTerminal of a key holding no port has failed on the port another
\* key holds
C26_Witness ==
  /\ pmResult.op = "assignPortToTerminal"
  /\ ~pmResult.fraction
  /\ pmResult.key = Some("t2")
  /\ pmResult.err = Some("AlreadyInUse")
  /\ ~Holds(pm, "t2")
  /\ Holds(pm, "t1")
  /\ pmResult.req = Some(pm.terminalPortMap["t1"])

\* every port of the range is locally reserved
AllReserved(p) == \A q \in MIN_PORT..MAX_PORT : q \in p.usedPorts

\* C27: getAvailablePort() ends after at most RANDOM_ATTEMPTS random probes and
\* one sequential scan, and throws if and only if every port of the range is
\* locally reserved; getAvailablePortCount() is the number of ports of the range
\* that are not locally reserved
C27_ExhaustedIffAllReserved ==
  /\ Draws(pm, store) # {}
  /\ \A d \in Draws(pm, store) :
       /\ d.probes <= RANDOM_ATTEMPTS
       /\ d.scanned => d.probes = RANDOM_ATTEMPTS
       /\ (d.val = None) <=> AllReserved(pm)
  /\ getAvailablePortCount(pm)
       = Cardinality({q \in MIN_PORT..MAX_PORT : q \notin pm.usedPorts})
  /\ getAvailablePortCount(pm)
       = Cardinality(MIN_PORT..MAX_PORT) - Cardinality(pm.usedPorts)

\* getAvailablePort() has thrown with every port of the range reserved
C27_Witness ==
  /\ pmResult.op = "getAvailablePort"
  /\ pmResult.err = Some("Exhausted")
  /\ Cardinality(pm.usedPorts) = MAX_PORT - MIN_PORT + 1

\* the positions of the candidates Tier 3 may select: all of them when there is
\* no target workspace path, else those whose workspacePath is defined and
\* matches the target
Selectable(list, target) ==
  {k \in 1..Len(list) :
     \/ target = None
     \/ /\ IsSome(list[k].workspacePath)
        /\ pathsMatch(Val(list[k].workspacePath), Val(target))}

\* the health probes among the calls logged from position k on, up to the spawn
\* of Tier 4
ProbesFrom(calls, k) ==
  LET spawns == {j \in k..Len(calls) : calls[j].call = "spawn"}
      last == IF spawns = {} THEN Len(calls)
              ELSE (CHOOSE j \in spawns : \A i \in spawns : j <= i) - 1
  IN SelectSeq(SubSeq(calls, k, last), LAMBDA c : c.call = "health")

\* C28: when the discovery scan of a resolve call completes, Tier 3 selects the
\* first candidate in the returned order when there is no target workspace path,
\* and otherwise the first whose workspacePath is defined and matches the target;
\* it probes that candidate and no other, and with no such candidate, or when the
\* probe fails, it goes on to Tier 4 without another probe
C28_Tier3Selection ==
  \A t \in Tasks :
    LET task == tasks[t]
    IN /\ task.pc = "t3scan" =>
            \A discovered \in DiscoveryResults :
              LET after == T3AfterScan(task, discovered)
                  list == IF IsSome(discovered) THEN Val(discovered) ELSE <<>>
                  chosen == Selectable(list, getTargetWorkspacePath(task.record))
                  probed == ProbesFrom(after.calls, Len(task.calls) + 1)
              IN IF chosen = {}
                 THEN after.pc = "t4start" /\ probed = <<>>
                 ELSE LET first == list[CHOOSE k \in chosen : \A j \in chosen : k <= j]
                      IN /\ after.pc = "t3probe"
                         /\ after.port = Some(first.port)
                         /\ after.pid = Some(first.pid)
                         /\ probed = <<Log("health", Some(first.port))>>
       /\ \A k \in 1..Len(task.calls) :
            task.calls[k].call \in {"scanned", "rejected"} =>
              /\ Len(ProbesFrom(task.calls, k)) <= 1
              /\ task.pc = "t4start" =>
                   \/ ProbesFrom(task.calls, k) = <<>>
                   \/ task.calls[Len(task.calls)].call \in {"unhealthy", "throw"}

\* Tier 3 has passed over a first candidate without workspace path and probes the
\* second one, which is in a subfolder of the target
C28_Witness ==
  \E t \in Tasks :
    /\ tasks[t].pc = "t3probe"
    /\ getTargetWorkspacePath(tasks[t].record) = Some(PathW)
    /\ tasks[t].port = Some(MIN_PORT + 1)
    /\ Len(ProbesFrom(tasks[t].calls, 1)) = 1

\* the hint of the Tier 4 spawn of a task: config.preferredPort of the record the
\* call read when it started
SpawnHint(task) ==
  IF IsSome(task.record) THEN Val(task.record).config.preferredPort ELSE None

RuntimePortOf(record) ==
  IF IsSome(record) THEN Val(record).runtime.port ELSE None

C29_Step ==
  \A t \in Tasks :
    LET task == tasks[t]
        after == tasks'[t]
        updated == Get(store, task.id)
        last == after.calls[Len(after.calls)]
    IN /\ (task.pc = "t4start" /\ after.pc = "t4spawned") =>
            last = Log("spawn", SpawnHint(task))
       /\ (task.pc = "t4spawned" /\ after.pc # "t4spawned" /\ ~task.spawnThrew) =>
            /\ IsSome(RuntimePortOf(updated)) =>
                 /\ after.pc = "t4probe"
                 /\ after.port = RuntimePortOf(updated)
                 /\ last = Log("health", RuntimePortOf(updated))
            /\ StoredPortOf(updated) = None =>
                 /\ after.pc = "ret"
                 /\ after.result = None
                 /\ last.call = "spawned"
       /\ (task.pc = "t4probe" /\ after.pc # "t4probe") =>
            /\ after.pc = "ret"
            /\ after.calls = Append(task.calls, last)
            /\ last.call = "healthy" => after.result = task.port
            /\ last.call # "healthy" => after.result = None

\* C29: when Tier 2 and Tier 3 have failed and a controller is configured, resolve
\* calls spawn with config.preferredPort of the record as hint; when the spawn
\* has completed it reads the record again, probes the runtime.port q it finds
\* and returns q if the probe succeeds and undefined if it fails; it returns
\* undefined without a probe if the record holds no port
C29_Tier4 == [][C29_Step]_vars

\* a call whose stored port failed its probe and whose scan matched nothing has
\* spawned, probed the recorded port and returns it
C29_Witness ==
  \E t \in Tasks :
    LET task == tasks[t]
    IN /\ task.pc = "ret"
       /\ Len(task.calls) = 8
       /\ [k \in 1..8 |-> task.calls[k].call]
            = <<"health", "unhealthy", "discover", "scanned", "spawn", "spawned",
                "health", "healthy">>
       /\ task.calls[5].port = SpawnHint(task)
       /\ task.result = task.calls[7].port
       /\ IsSome(task.result)
       /\ RuntimePortOf(Get(store, task.id)) = task.result

\* C30: start(id) creates a timer only when id is in the store, its state is
\* neither spawning nor stopping and no timer exists for id, and it touches the
\* timers of no other id; there is at most one timer per id, the one the poller
\* keeps in its map; stop(id) for an id without a timer changes nothing
C30_OneTimerPerId ==
  \A id \in Ids :
    LET afterStart == start(intervals, timers, store, id)
        afterStop == stop(intervals, failureCounts, timers, id)
    IN /\ timers[id] <= 1
       /\ (timers[id] = 1) <=> (id \in intervals)
       /\ afterStart.timers[id] <= 1
       /\ afterStart.timers[id] > timers[id] =>
            /\ Has(store, id)
            /\ Val(Get(store, id)).state \notin {"spawning", "stopping"}
            /\ timers[id] = 0
       /\ \A other \in Ids \ {id} : afterStart.timers[other] = timers[other]
       /\ timers[id] = 0 =>
            afterStop = [intervals |-> intervals, failureCounts |-> failureCounts,
                       timers |-> timers]

\* a timer runs for an instance whose record has since moved to a skipped state,
\* and the other instance is known and has no timer
C30_Witness ==
  /\ timers["a"] = 1
  /\ Has(store, "a")
  /\ Val(Get(store, "a")).state = "spawning"
  /\ Has(store, "b")
  /\ timers["b"] = 0

\* the requests of the client that have ended
ApiDone == api.pc = "done"

\* every attempt of the request rejected
AllRejected == \A k \in 1..Len(api.fetches) : api.fetches[k] \in Rejections

\* C31: a request of an OpenCodeApiClient makes at most maxRetries + 1 attempts;
\* every attempt but the last one rejected (no retry follows a response); the
\* k-th retry is preceded by a sleep of baseDelay * 2^(k-1); a request whose
\* maxRetries + 1 attempts all rejected ends with MAX_RETRIES_EXHAUSTED or
\* TIMEOUT_EXHAUSTED, which healthCheck returns as false, and no request ends
\* with such an error before.
C31_BoundedRetries ==
  /\ Len(api.fetches) <= api.maxRetries + 1
  /\ \A k \in 1..(Len(api.fetches) - 1) : api.fetches[k] \in Rejections
  /\ Len(api.sleeps) = (IF api.pc \in {"sleep", "fetch"} THEN Len(api.fetches)
                        ELSE IF api.fetches = <<>> THEN 0 ELSE Len(api.fetches) - 1)
  /\ \A k \in 1..Len(api.sleeps) : api.sleeps[k] = api.baseDelay * 2 ^ (k - 1)
  /\ api.pc \in {"idle", "fetch", "sleep", "done"}
  /\ ApiDone =>
       LET exhausted == AllRejected /\ Len(api.fetches) = api.maxRetries + 1
           last == api.fetches[Len(api.fetches)]
           code == IF last = "abort" THEN "TIMEOUT_EXHAUSTED" ELSE "MAX_RETRIES_EXHAUSTED"
       IN /\ AllRejected => exhausted
          /\ exhausted =>
               api.result = (IF api.op = "healthCheck" THEN "false" ELSE code)
          /\ ~exhausted =>
               api.result \notin {"TIMEOUT_EXHAUSTED", "MAX_RETRIES_EXHAUSTED"}

\* a healthCheck that used its whole budget of two retries and returned false
C31_Witness ==
  /\ ApiDone
  /\ api.op = "healthCheck"
  /\ api.maxRetries = 2
  /\ Len(api.fetches) = 3
  /\ AllRejected
  /\ api.sleeps = <<api.baseDelay, 2 * api.baseDelay>>
  /\ api.result = "false"

\* directory a is a proper ancestor of path b (both normalized): b continues a
\* with a separator and at least one more character
IsProperAncestor(a, b) ==
  /\ Len(a) > 0
  /\ Len(a) < Len(b)
  /\ SubSeq(b, 1, Len(a)) = a
  /\ (a[Len(a)] = "/" \/ b[Len(a) + 1] = "/")

\* C32: pathsMatch(a, b) = pathsMatch(b, a), and pathsMatch returns true exactly
\* when both normalized paths are non-empty and either equal or one is a proper
\* ancestor directory of the other; it returns false when either path is empty.
C32_PathsMatch ==
  IsSome(pathCall.result) =>
    LET a == normalizePath(pathCall.path1)
        b == normalizePath(pathCall.path2)
    IN /\ Val(pathCall.result) = pathsMatch(pathCall.path2, pathCall.path1)
       /\ Val(pathCall.result) =
            (/\ Len(a) > 0
             /\ Len(b) > 0
             /\ (a = b \/ IsProperAncestor(a, b) \/ IsProperAncestor(b, a)))
       /\ (pathCall.path1 = <<>> \/ pathCall.path2 = <<>>) => ~Val(pathCall.result)

\* what holds of pathsMatch: the claim for the paths other than the root "/",
\* and under the root only the paths that begin with two separators match it
C32_ExceptRoot ==
  IsSome(pathCall.result) =>
    LET a == normalizePath(pathCall.path1)
        b == normalizePath(pathCall.path2)
        rooted == (a = <<"/">> /\ IsProperAncestor(a, b)) \/ (b = <<"/">> /\ IsProperAncestor(b, a))
    IN /\ Val(pathCall.result) = pathsMatch(pathCall.path2, pathCall.path1)
       /\ ~rooted =>
            Val(pathCall.result) =
              (/\ Len(a) > 0
               /\ Len(b) > 0
               /\ (a = b \/ IsProperAncestor(a, b) \/ IsProperAncestor(b, a)))
       /\ rooted => Val(pathCall.result) = (startsWith(a, <<"/", "/">>) \/ startsWith(b, <<"/", "/">>))

\* the step is a tick of id that launches a probe
TickProbes(id) == probes'[id].fresh > probes[id].fresh

\* the step is a tick of id that returns at once
TickSkips(id) == hist'[id].last = "skipped" /\ hist[id].last # "skipped"

\* the fields of a health object other than ok
OtherHealth(health) == IF IsSome(health) THEN Some(Val(health).version) ELSE None

\* C33: a tick of the HealthPoller launches a probe only for an instance that is
\* in the store with a runtime.port, and otherwise writes nothing and changes no
\* counter; the completion of a probe changes at most health.ok, state and error
\* of the record of its id: config, runtime and the other health fields keep the
\* values the store has at that moment, no other record changes, and nothing is
\* written when the record is gone.
C33_TickFrame ==
  [][\A id \in Ids :
       /\ TickProbes(id) =>
            /\ Has(store, id)
            /\ IsSome(Val(Get(store, id)).runtime.port)
       /\ TickSkips(id) =>
            /\ ~Has(store, id) \/ ~HasTruthyPort(Val(Get(store, id)))
            /\ UNCHANGED <<store, failureCounts, probes>>
       /\ ProbeDoneStep(id) =>
            /\ \A other \in AllIds \ {id} : Get(store', other) = Get(store, other)
            /\ store'.order = store.order
            /\ store'.active = store.active
            /\ Has(store', id) = Has(store, id)
            /\ ~Has(store, id) => failureCounts' = failureCounts
            /\ Has(store, id) =>
                 LET before == Val(Get(store, id))
                     after == Val(Get(store', id))
                 IN /\ after.config = before.config
                    /\ after.runtime = before.runtime
                    /\ IsSome(after.health)
                    /\ IsSome(before.health) => OtherHealth(after.health) = OtherHealth(before.health)]_vars

\* the third failed probe moved a record that has a port, a pid, a preferred
\* port and a version in its health to error
C33_Witness ==
  /\ hist["a"].last = "failed"
  /\ FailureCount(failureCounts, "a") = FAILURE_THRESHOLD
  /\ Has(store, "a")
  /\ Val(Get(store, "a")).state = "error"
  /\ Val(Get(store, "a")).error = Some(HealthFailedMessage)
  /\ Val(Get(store, "a")).runtime.port = Some(MIN_PORT)
  /\ Val(Get(store, "a")).health = Some([ok |-> FALSE, version |-> Some("1.2.3")])

\* C34: InstanceController.disconnect(id) on an existing record writes state
\* disconnected and clears error, and changes nothing else: the record's config
\* and runtime (port, pid, terminalKey), the other records, the PortManager and
\* the terminal processes are as before, and the call does not fail.
C34_DisconnectFrame ==
  \A id \in Ids :
    Has(store, id) =>
      \A o \in disconnect(Fresh(store), pm, terminals, id) :
        LET before == Val(Get(store, id))
            after == Val(Get(o.store, id))
        IN /\ o.err = None
           /\ Has(o.store, id)
           /\ after.state = "disconnected"
           /\ after.error = None
           /\ after.config = before.config
           /\ after.runtime = before.runtime
           /\ after.health = before.health
           /\ \A other \in AllIds \ {id} : Get(o.store, other) = Get(store, other)
           /\ o.pm = pm
           /\ o.terminals = terminals

\* a spawned instance was disconnected: its process runs and the PortManager
\* holds its port for its terminal key
C34_Witness ==
  /\ Has(store, "a")
  /\ LET r == Val(Get(store, "a"))
     IN /\ r.state = "disconnected"
        /\ IsSome(r.runtime.port)
        /\ IsSome(r.runtime.terminalKey)
        /\ Val(r.runtime.terminalKey) \in terminals
        /\ HeldPort(pm, Val(r.runtime.terminalKey)) = r.runtime.port

\* the step is an upsert that inserted a record, or one that emitted change alone
UpsertStep ==
  \/ \E k \in 1..Len(store'.emitted) : store'.emitted[k].event = "add"
  \/ EventNames(store') = <<"change">>

\* the step is remove(id) of an id that was in the store
RemoveStep(id) ==
  /\ Len(store'.emitted) > 0
  /\ store'.emitted[1].event = "remove"
  /\ store'.emitted[1].arg = id

\* C35: while the store has an active id, upsert of a record (of a new or of an
\* existing id) leaves the active id as it is, and remove(id) of another id than
\* the active one leaves the active id as it is and emits no setActive event.
C35_ActiveIdFrame ==
  [][store.active # None =>
       /\ UpsertStep =>
            /\ store'.active = store.active
            /\ \A k \in 1..Len(store'.emitted) : store'.emitted[k].event # "setActive"
       /\ \A id \in AllIds :
            (RemoveStep(id) /\ store.active # Some(id)) =>
              /\ store'.active = store.active
              /\ \A k \in 1..Len(store'.emitted) : store'.emitted[k].event # "setActive"]_vars

\* a record was added and another removed while a third id stayed active
C35_Witness ==
  /\ store.active = Some("a")
  /\ Has(store, "a")
  /\ ~Has(store, "b")
  /\ Has(store, "")
  /\ store.order = <<"a", "">>
  /\ EventNames(store) = <<"remove", "change">>

\* the step continues the resolve call of task t after one of its awaits
ResolveContinues(t) ==
  /\ tasks[t].pc \notin {"idle", "ctlret"}
  /\ tasks'[t].pc # tasks[t].pc

\* the resolve call of task t started with a record of its id
StartedWithRecord(t) == IsSome(tasks[t].record) \/ IsSome(tasks[t].current)

\* C36: when the record of id was removed while ConnectionResolver.resolve(id)
\* or InstanceController.resolve(id) was suspended, no later step of that call
\* inserts a record for id again.
C36_NoReinsertion ==
  [][\A t \in Tasks :
       (/\ ResolveContinues(t)
        /\ StartedWithRecord(t)
        /\ ~Has(store, tasks[t].id)) => ~Has(store', tasks[t].id)]_vars

\* C37: in every state reached by InstanceController operations alone (spawn,
\* connect, disconnect, kill, resolve without a resolver, dispose), a record in
\* state connected has a runtime.port, and it is the port the PortManager holds
\* for the record's terminal key.
C37_ConnectedPortIsHeld ==
  \A id \in Ids :
    StateIs(store, id, "connected") =>
      LET record == Val(Get(store, id))
      IN /\ IsSome(record.runtime.port)
         /\ HeldPort(pm, getTerminalKey(id, record)) = record.runtime.port

\* C38: when InstanceController.spawn(id) fails in the process creation, after
\* the PortManager assigned a port, the PortManager holds on return no port for
\* the terminal key of the instance that it did not hold before the call.
C38_FailedSpawnReleasesPort ==
  \A id \in Ids, optPort \in {None, Some(MIN_PORT)} :
    \A o \in spawn(Fresh(store), pm, terminals, id, optPort) :
      o.err = Some("SpawnFailed") =>
        LET terminalKey == getTerminalKey(id, Val(Get(o.store, id)))
        IN IsSome(HeldPort(o.pm, terminalKey)) =>
             HeldPort(o.pm, terminalKey) = HeldPort(pm, terminalKey)

\* C39: when ConnectionResolver.resolve(id) has returned undefined, nothing else
\* having operated on id during the call, and the record was not connected when
\* the call started, the record is not in state connected.
C39_UndefinedNotConnected ==
  \A t \in Tasks :
    (/\ tasks[t].pc = "ret"
     /\ tasks[t].result = None
     /\ ~tasks[t].touched
     /\ ~(IsSome(tasks[t].record) /\ Val(tasks[t].record).state = "connected")) =>
      ~StateIs(store, tasks[t].id, "connected")

\* C40: a probe completion moves an instance from connected to error only when
\* at least 3 failed probes, this one included, completed while the instance was
\* in state connected since the last success or stop: failures counted while it
\* was in another state do not count towards the transition.
C40_ErrorAfterConnectedFailures ==
  [][\A id \in Ids :
       (ProbeDoneStep(id) /\ StateIs(store, id, "connected") /\ SetsError(id)) =>
         hist'[id].whileConnected >= FAILURE_THRESHOLD]_vars

====
